---------------------------- MODULE Spec2Model ----------------------------
(***************************************************************************)
(* Model of the SMT-LIB v2 front end of Bitwuzla (src/parser/bzlasmt2.c):  *)
(* the symbol table with its collision chains, the scope counter, the      *)
(* write-once error slot, the term parser as far as it touches the symbol  *)
(* table (symbols, let, forall, :named), and the command driver            *)
(* read_command_smt2 with the main loop of parse_smt2_parser.              *)
(*                                                                         *)
(* Names are sequences of character codes.  The input is a sequence of     *)
(* well-parenthesised commands on one line, so every token has coo.x = 1,  *)
(* and columns are not modelled.  The backend is modelled by the calls the *)
(* parser makes to it.                                                     *)
(***************************************************************************)
EXTENDS Integers, Sequences, FiniteSets, TLC

VARIABLES
    parser,     \* BzlaSMT2Parser: the fields of the parser object
    bzla,       \* the backend as seen through the calls made to it
    outfile,    \* lines printed to parser->outfile
    res,        \* BzlaParseResult
    pc,         \* "parse": main loop; "model": loop of the model block;
                \* "done": parse_smt2_parser has returned
    result,     \* the string returned by parse_smt2_parser
    last,       \* the command read most recently and its return value
    perr,       \* the first and the latest message handed to perr_smt2
    opened      \* history: for each open scope level, the push that opened it

vars == <<parser, bzla, outfile, res, pc, result, last, perr, opened>>

-----------------------------------------------------------------------------
(* Bounds                                                                  *)

MaxCmds   == 4   \* commands executed successfully (parser->commands.all)
MaxTermCmds == 3 \* the same, where terms are parsed
MaxScope  == 2   \* scope levels opened by push
MaxOut    == 3   \* lines printed
MaxSent == 2   \* calls of boolector_assert / boolector_assume
MaxBound  == 1   \* quantified variables created (parser->bound_vars)
MaxGarbage == 1  \* largest value found in an uninitialised variable
MaxFpArgs == 4   \* arguments of fp.add, fp.sub, fp.mul and fp.div
MaxArgs   == 3   \* arguments of an operator of the bit-vector, core and
                 \* array theories
MaxTable  == 3   \* entries of a symbol table that is filled from empty
MaxConst  == 4   \* the number K of a constant (_ bvK n)
MaxWidth  == 2   \* the width n of a constant (_ bvK n)
MaxFile   == 4   \* characters of a file of which the positions are followed
MaxText   == 5   \* characters of an input of digits and dots

-----------------------------------------------------------------------------
(* Character codes and names                                               *)

BAR == 124                         \* '|'
ZERO_CHAR == 48                    \* '0'
NINE_CHAR == 57                    \* '9'
UNDERSCORE == 95                   \* '_'

x  == <<120>>
y  == <<121>>
\* the names that insert_keywords_smt2, insert_reserved_words_smt2 and
\* insert_core_symbols_smt2 enter into the symbol table
kw == [notes  |-> <<58, 110, 111, 116, 101, 115>>,   \* ":notes"
       named  |-> <<58, 110, 97, 109, 101, 100>>,    \* ":named"
       let    |-> <<108, 101, 116>>,                 \* "let"
       not    |-> <<110, 111, 116>>,                 \* "not"
       bang   |-> <<33>>,                            \* "!"
       forall |-> <<102, 111, 114, 97, 108, 108>>,   \* "forall"
       \* "concat", "bvand", "bvor", "bvxor", "bvxnor", "bvadd", "bvsub",
       \* "bvmul", "=", "distinct", "select", "store"
       concat   |-> <<99, 111, 110, 99, 97, 116>>,
       bvand    |-> <<98, 118, 97, 110, 100>>,
       bvor     |-> <<98, 118, 111, 114>>,
       bvxor    |-> <<98, 118, 120, 111, 114>>,
       bvxnor   |-> <<98, 118, 120, 110, 111, 114>>,
       bvadd    |-> <<98, 118, 97, 100, 100>>,
       bvsub    |-> <<98, 118, 115, 117, 98>>,
       bvmul    |-> <<98, 118, 109, 117, 108>>,
       eq       |-> <<61>>,
       distinct |-> <<100, 105, 115, 116, 105, 110, 99, 116>>,
       select   |-> <<115, 101, 108, 101, 99, 116>>,
       store    |-> <<115, 116, 111, 114, 101>>,
       \* "zero_extend", "sign_extend", "ext_rotate_left",
       \* "ext_rotate_right"
       zero_extend |-> <<122, 101, 114, 111, 95, 101, 120, 116, 101, 110,
                         100>>,
       sign_extend |-> <<115, 105, 103, 110, 95, 101, 120, 116, 101, 110,
                         100>>,
       ext_rotate_left  |-> <<101, 120, 116, 95, 114, 111, 116, 97, 116,
                              101, 95, 108, 101, 102, 116>>,
       ext_rotate_right |-> <<101, 120, 116, 95, 114, 111, 116, 97, 116,
                              101, 95, 114, 105, 103, 104, 116>>,
       \* "RNE", "fp.add", "fp.sub", "fp.mul", "fp.div"
       RNE    |-> <<82, 78, 69>>,
       fp_add |-> <<102, 112, 46, 97, 100, 100>>,
       fp_sub |-> <<102, 112, 46, 115, 117, 98>>,
       fp_mul |-> <<102, 112, 46, 109, 117, 108>>,
       fp_div |-> <<102, 112, 46, 100, 105, 118>>]

Names == <<x, y>>

\* the quoted form |name| of a simple symbol
Quote(name) == <<BAR>> \o name \o <<BAR>>

\* |x|, |y|, |z| and the reserved word |not|
Quoted == <<Quote(x), Quote(y), Quote(<<122>>), Quote(<<110, 111, 116>>)>>

NULL == ""

\* a local variable: Op applied to the value e
With(e, Op(_)) == Op(e)

\* the loop "for (i = from; i <= to; i++) acc = Body(acc, i)"
For(from, to, acc, Body(_, _)) ==
    LET after[i \in (from - 1)..to] ==
           IF i < from THEN acc ELSE Body(after[i - 1], i)
    IN  IF to < from THEN acc ELSE after[to]

-----------------------------------------------------------------------------
(* Backend nodes and sorts, as far as the parser inspects them             *)

NoExp == [kind |-> "null", width |-> 0, array |-> FALSE, fun |-> FALSE,
          name |-> <<>>, args |-> <<>>]

MkExp(k, wd, arr, fn, nm, as) ==
    [kind |-> k, width |-> wd, array |-> arr, fun |-> fn, name |-> nm,
     args |-> as]

\* the constant with the binary digits bits, kept in the field name
boolector_const(bits) == MkExp("const", Len(bits), FALSE, FALSE, bits, <<>>)

boolector_is_const(e) == e.kind = "const"

NoSort == [kind |-> "null", width |-> 0, array |-> FALSE]

BVSort(n)  == [kind |-> "bv", width |-> n, array |-> FALSE]
ArraySort  == [kind |-> "array", width |-> 1, array |-> TRUE]

boolector_is_array(e) == e.array
boolector_is_fun(e)   == e.fun
boolector_bv_get_width(e) == e.width

-----------------------------------------------------------------------------
(* Symbol table                                                            *)

\* The hash is computed modulo 2^32 and then masked with size - 1, size a
\* power of two at most HashMod; computing modulo HashMod throughout gives
\* the same bucket.  The primes are 1000000007, 2000000011, 3000000019 and
\* 4000000007, given by their residues modulo HashMod.
HashMod == 4096
bzla_primes_smt2 == <<2567, 1035, 3603, 2055>>
BZLA_NPRIMES_SMT2 == 4

IsQuoted(name) == name[1] = BAR /\ name[Len(name)] = BAR

RECURSIVE HashLoop(_, _, _, _, _)
HashLoop(name, pos, len, r, i) ==
    IF pos > len THEN r
    ELSE HashLoop(name, pos + 1, len,
                  ((r + name[pos]) * bzla_primes_smt2[i + 1]) % HashMod,
                  IF i + 1 = BZLA_NPRIMES_SMT2 THEN 0 ELSE i + 1)

\* hash_name_smt2 without "Ignore pipes in quoted symbols"
hash_name_smt2_with_bars(size, name) ==
    HashLoop(name, 1, Len(name), 0, 0) % size

hash_name_smt2(size, name) ==
    LET h == IF IsQuoted(name)
             THEN HashLoop(name, 2, Len(name) - 1, 0, 0)
             ELSE HashLoop(name, 1, Len(name), 0, 0)
    IN  h % size

\* strncmp(a, b, n) = 0 for sequences a, b that have at least n elements
Strip(name) == SubSeq(name, 2, Len(name) - 1)

NameMatches(sname, name) ==
    LET s_quoted    == IsQuoted(sname)
        name_quoted == IsQuoted(name)
    IN  IF s_quoted = name_quoted THEN sname = name
        ELSE IF s_quoted
             THEN Len(sname) - 2 = Len(name) /\ Strip(sname) = name
             ELSE Len(name) - 2 = Len(sname) /\ sname = Strip(name)

NoNode == [id |-> 0, tag |-> "INVALID", name |-> <<>>, scope_level |-> 0,
           coo |-> 0, exp |-> NoExp, bound |-> 0, sort |-> 0,
           sort_alias |-> NoSort]

Size(symbol) == Len(symbol.table)

RECURSIVE Flatten(_)
Flatten(table) ==
    IF table = <<>> THEN <<>> ELSE Head(table) \o Flatten(Tail(table))

AllNodes(symbol) == Flatten(symbol.table)

NodeById(symbol, id) ==
    With(AllNodes(symbol), LAMBDA ns :
        IF \E i \in 1..Len(ns) : ns[i].id = id
        THEN ns[CHOOSE i \in 1..Len(ns) : ns[i].id = id]
        ELSE NoNode)

\* first element of a chain whose name matches, NoNode when there is none
RECURSIVE FindInChain(_, _)
FindInChain(chain, name) ==
    IF chain = <<>> THEN NoNode
    ELSE IF NameMatches(Head(chain).name, name) THEN Head(chain)
    ELSE FindInChain(Tail(chain), name)

find_symbol_smt2(symbol, name) ==
    IF Size(symbol) = 0 THEN NoNode
    ELSE FindInChain(symbol.table[hash_name_smt2(Size(symbol), name) + 1],
                     name)

\* the inner loop of enlarge_symbol_table_smt2: the chain of one old bucket
\* is pushed on a stack and popped, each node going to the front of its new
\* bucket
RECURSIVE Rechain(_, _, _)
Rechain(table, chain, k) ==
    IF k = 0 THEN table
    ELSE LET p == chain[k]
             h == hash_name_smt2(Len(table), p.name) + 1
         IN  Rechain([table EXCEPT ![h] = <<p>> \o @], chain, k - 1)

RECURSIVE EnlargeFrom(_, _, _)
EnlargeFrom(old_table, i, new_table) ==
    IF i > Len(old_table) THEN new_table
    ELSE EnlargeFrom(old_table, i + 1,
                     Rechain(new_table, old_table[i], Len(old_table[i])))

\* enlarge_symbol_table_smt2 that leaves each chain of the new table in
\* the order in which the stack is popped
enlarge_symbol_table_smt2_popped(symbol) ==
    LET old_size == Size(symbol)
        new_size == IF old_size # 0 THEN 2 * old_size ELSE 1
    IN  [symbol EXCEPT
           !.table = With(EnlargeFrom(symbol.table, 1,
                                      [i \in 1..new_size |-> <<>>]),
                          LAMBDA t :
                          [i \in 1..new_size |->
                              [k \in 1..Len(t[i]) |->
                                  t[i][Len(t[i]) + 1 - k]]])]

enlarge_symbol_table_smt2(symbol) ==
    LET old_size == Size(symbol)
        new_size == IF old_size # 0 THEN 2 * old_size ELSE 1
    IN  [symbol EXCEPT
           !.table = EnlargeFrom(symbol.table, 1, [i \in 1..new_size |-> <<>>])]

insert_symbol_smt2(symbol, node) ==
    With(IF Size(symbol) <= symbol.count
         THEN enlarge_symbol_table_smt2(symbol) ELSE symbol,
         LAMBDA s :
            [s EXCEPT !.table[hash_name_smt2(Size(s), node.name) + 1] =
                          <<node>> \o @,
                      !.count = @ + 1])

\* malloc: a node that is not in the table
FreshId(symbol) ==
    With(AllNodes(symbol), LAMBDA ns :
        CHOOSE i \in 1..(symbol.count + 1) :
           i \notin {ns[k].id : k \in 1..Len(ns)})

\* new_node_smt2 that leaves scope_level at 0
new_node_smt2_level_zero(symbol, scope_level, tag, name) ==
    [NoNode EXCEPT !.id = FreshId(symbol), !.tag = tag, !.name = name]

new_node_smt2(symbol, scope_level, tag, name) ==
    [NoNode EXCEPT !.id = FreshId(symbol), !.tag = tag, !.name = name,
                   !.scope_level = scope_level]

RECURSIVE Unlink(_, _)
Unlink(chain, id) ==
    IF chain = <<>> THEN <<>>
    ELSE IF Head(chain).id = id THEN Tail(chain)
    ELSE <<Head(chain)>> \o Unlink(Tail(chain), id)

remove_symbol_smt2(symbol, node) ==
    LET h == hash_name_smt2(Size(symbol), node.name) + 1
    IN  [symbol EXCEPT !.table[h] = Unlink(@, node.id), !.count = @ - 1]

\* assignment to a field of the node with the given id
SetNode(symbol, id, f(_)) ==
    [symbol EXCEPT !.table =
        [b \in 1..Len(symbol.table) |->
            [k \in 1..Len(symbol.table[b]) |->
                IF symbol.table[b][k].id = id THEN f(symbol.table[b][k])
                ELSE symbol.table[b][k]]]]

open_new_scope(p) == [p EXCEPT !.scope_level = @ + 1]

RECURSIVE RemoveLevel(_, _, _)
RemoveLevel(symbol, nodes, level) ==
    IF nodes = <<>> THEN symbol
    ELSE RemoveLevel(IF Head(nodes).scope_level = level
                     THEN remove_symbol_smt2(symbol, Head(nodes))
                     ELSE symbol,
                     Tail(nodes), level)

\* close_current_scope without the test of global_declarations
close_current_scope_always(p) ==
    [p EXCEPT !.symbol = RemoveLevel(@, AllNodes(@), p.scope_level),
              !.scope_level = @ - 1]

close_current_scope(p) ==
    [p EXCEPT !.symbol = IF ~p.global_declarations
                         THEN RemoveLevel(@, AllNodes(@), p.scope_level)
                         ELSE @,
              !.scope_level = @ - 1]

-----------------------------------------------------------------------------
(* The world threaded through the parser's functions                       *)

\* perr_smt2 without the test "if (!parser->error)"
perr_smt2_overwrite(w, msg) ==
    [w EXCEPT !.parser.error = msg,
              !.perr = [first |-> IF @.first = NULL THEN msg ELSE @.first,
                        last  |-> msg]]

perr_smt2(w, msg) ==
    [w EXCEPT !.parser.error = IF @ = NULL THEN msg ELSE @,
              !.perr = [first |-> IF @.first = NULL THEN msg ELSE @.first,
                        last  |-> msg]]

print_success(w) ==
    IF ~w.parser.print_success THEN w
    ELSE [w EXCEPT !.outfile = Append(@, "success")]

-----------------------------------------------------------------------------
(* Lexer: the branches of read_token_aux_smt2 that consult the symbol      *)
(* table.  The token text is the name; the result is the tag returned and  *)
(* the world with parser->last_node set.                                   *)

DOT == 46

IsDigit(ch) == ch >= ZERO_CHAR /\ ch <= NINE_CHAR

\* read_token_aux_smt2, the branches "ch == '0'" and decimal digit, on the
\* characters str of the input, the first a digit: the tag returned, the
\* token, the characters left in the input and the error reported.  j is
\* the index of the character at which the digits before the dot end, one
\* digit when the first is '0', and run(i) that of the first character
\* from the i-th on that is no digit.
NumeralToken(str) ==
    LET RECURSIVE run(_)
        run(i) == IF i <= Len(str) /\ IsDigit(str[i]) THEN run(i + 1) ELSE i
        j == IF str[1] = ZERO_CHAR THEN 2 ELSE run(2)
    IN  IF j <= Len(str) /\ str[j] = DOT
        THEN IF j + 1 > Len(str)
             THEN [tag |-> "INVALID", token |-> SubSeq(str, 1, j),
                   rest |-> <<>>, msg |-> "unexpected end-of-file after"]
             ELSE IF ~IsDigit(str[j + 1])
             THEN [tag |-> "INVALID", token |-> SubSeq(str, 1, j),
                   rest |-> SubSeq(str, j + 2, Len(str)),
                   msg |-> "expected decimal digit after"]
             ELSE [tag |-> "REAL_CONSTANT",
                   token |-> SubSeq(str, 1, run(j + 2) - 1),
                   rest |-> SubSeq(str, run(j + 2), Len(str)), msg |-> ""]
        ELSE [tag |-> "DECIMAL_CONSTANT", token |-> SubSeq(str, 1, j - 1),
              rest |-> SubSeq(str, j, Len(str)), msg |-> ""]

COLON == 58

read_token_aux_smt2(w, name) ==
    With(find_symbol_smt2(w.parser.symbol, name), LAMBDA found :
    IF found # NoNode
    THEN [w   |-> [w EXCEPT !.parser.last_node = found.id],
          tag |-> IF name[1] = BAR THEN "SYMBOL" ELSE found.tag]
    ELSE
    With(new_node_smt2(w.parser.symbol, w.parser.scope_level,
                       IF name[1] = COLON THEN "ATTRIBUTE" ELSE "SYMBOL",
                       name), LAMBDA node :
    [w   |-> [w EXCEPT !.parser.symbol = insert_symbol_smt2(@, node),
                       !.parser.last_node = node.id],
     tag |-> IF name[1] = BAR THEN "SYMBOL" ELSE node.tag]))

LastNode(w) == NodeById(w.parser.symbol, w.parser.last_node)

\* Lexer: the characters.  The file is the token of kind "text" in
\* parser.infile, whose name holds the characters that getc has not yet
\* returned.  A coordinate is a pair <<x, y>>, x the line and y the column.
\* The characters of the file are '\n', ' ', '(', ')', ';', '|' and those
\* of symbols other than digits.

EOF == -1

NEWLINE == 10

SEMICOLON == 59

LPAR_CHAR == 40

RPAR_CHAR == 41

isspace_smt2(ch) == ch \in {32, 9, 13, NEWLINE}

\* cc_smt2(parser, ch) & BZLA_SYMBOL_CHAR_CLASS_SMT2: the letters, the
\* digits and "+-/*=%?!.$_~&^<>@"
IsSymbolChar(ch) ==
    \/ ch \in 65..90
    \/ ch \in 97..122
    \/ IsDigit(ch)
    \/ ch \in {43, 45, 47, 42, 61, 37, 63, 33, 46, 36, 95, 126, 38, 94, 60,
               62, 64}

\* nextch_smt2: the character returned and the world after
nextch_smt2(w) ==
    With(IF w.parser.saved
         THEN [w |-> [w EXCEPT !.parser.saved = FALSE],
               res |-> w.parser.savedch]
         ELSE IF w.parser.infile = <<>> \/ w.parser.infile[1].name = <<>>
         THEN [w |-> w, res |-> EOF]
         ELSE [w |-> [w EXCEPT !.parser.infile[1].name = Tail(@)],
               res |-> Head(w.parser.infile[1].name)], LAMBDA r :
    [ch |-> r.res,
     w  |-> IF r.res = NEWLINE
            THEN [r.w EXCEPT
                    !.parser.nextcoo = <<@[1] + 1, 1>>,
                    !.parser.last_end_of_line_ycoo = r.w.parser.nextcoo[2]]
            ELSE [r.w EXCEPT !.parser.nextcoo[2] = @ + 1]])

\* savech_smt2 without the line of the character before a saved '\n'
savech_smt2_same_line(w, ch) ==
    [w EXCEPT !.parser.saved = TRUE,
              !.parser.savedch = ch,
              !.parser.nextcoo = <<@[1], @[2] - 1>>]

\* savech_smt2; the parameter is a char, which holds EOF as it is where
\* char is signed
savech_smt2(w, ch) ==
    [w EXCEPT !.parser.saved = TRUE,
              !.parser.savedch = ch,
              !.parser.nextcoo =
                 IF ch = NEWLINE
                 THEN <<@[1] - 1, w.parser.last_end_of_line_ycoo>>
                 ELSE <<@[1], @[2] - 1>>]

\* cerr_smt2 with the message msg
cerr_smt2(w, ch, msg) ==
    perr_smt2(IF ~w.parser.saved THEN savech_smt2(w, ch) ELSE w, msg)

\* The result of read_token_aux_smt2: the world, the tag returned and the
\* number left of characters that getc had not returned when the first
\* character of the token had been read.
LexRes(w, tag, left) == [w |-> w, tag |-> tag, left |-> left]

\* read_token_aux_smt2, the loop that skips a comment: the result of the
\* call of nextch_smt2 that returns '\n' or EOF
RECURSIVE SkipComment(_)
SkipComment(w) ==
    With(nextch_smt2(w), LAMBDA r :
         IF r.ch = NEWLINE \/ r.ch = EOF THEN r ELSE SkipComment(r.w))

\* read_token_aux_smt2, the loop of the branch "ch == '|'"
RECURSIVE QuotedSymbol(_, _, _)
QuotedSymbol(w, token, left) ==
    With(nextch_smt2(w), LAMBDA r :
         IF r.ch = EOF
         THEN LexRes(cerr_smt2(r.w, r.ch,
                               "unexpected end-of-file in quoted symbol"),
                     "INVALID", left)
         ELSE IF r.ch = BAR
         THEN With(read_token_aux_smt2(r.w, Append(token, r.ch)), LAMBDA t :
                   LexRes(t.w, "SYMBOL", left))
         ELSE QuotedSymbol(r.w, Append(token, r.ch), left))

\* read_token_aux_smt2, the loop of the branch of the symbol characters
RECURSIVE SimpleSymbol(_, _, _)
SimpleSymbol(w, token, left) ==
    With(nextch_smt2(w), LAMBDA r :
         IF IsSymbolChar(r.ch) THEN SimpleSymbol(r.w, Append(token, r.ch), left)
         ELSE IF token = <<UNDERSCORE>>
         THEN LexRes(savech_smt2(r.w, r.ch), "UNDERSCORE", left)
         ELSE With(read_token_aux_smt2(savech_smt2(r.w, r.ch), token),
                   LAMBDA t : LexRes(t.w, t.tag, left)))

\* the number of characters that getc has not returned
Left(w) == IF w.parser.infile = <<>> THEN 0 ELSE Len(w.parser.infile[1].name)

\* read_token_aux_smt2 from the label RESTART on
RECURSIVE ReadChars(_)
ReadChars(w) ==
    With(nextch_smt2([w EXCEPT !.parser.coo = w.parser.nextcoo]), LAMBDA r :
         IF r.ch = EOF THEN LexRes(r.w, "EOF", 0)
         ELSE IF isspace_smt2(r.ch) THEN ReadChars(r.w)
         ELSE IF r.ch = SEMICOLON
         THEN With(SkipComment(r.w), LAMBDA c :
                   IF c.ch = EOF
                   THEN LexRes(perr_smt2(c.w,
                                  "unexpected end-of-file in comment"),
                               "INVALID", Left(r.w))
                   ELSE ReadChars(c.w))
         ELSE IF r.ch = LPAR_CHAR THEN LexRes(r.w, "LPAR", Left(r.w))
         ELSE IF r.ch = RPAR_CHAR THEN LexRes(r.w, "RPAR", Left(r.w))
         ELSE IF r.ch = BAR THEN QuotedSymbol(r.w, <<r.ch>>, Left(r.w))
         ELSE IF IsSymbolChar(r.ch) /\ ~IsDigit(r.ch)
         THEN SimpleSymbol(r.w, <<r.ch>>, Left(r.w))
         ELSE LexRes(cerr_smt2(r.w, r.ch, "illegal character"), "INVALID",
                     Left(r.w)))

\* A uint32_t or uint64_t is a pair <<hi, lo>> that stands for
\* hi * 2^16 + lo, with lo < 2^16: the numbers of the checker end at
\* 2^31 - 1.  Wide(n) is the pair of the number n.
Wide(n) == <<n \div 65536, n % 65536>>

UINT32_MAX == <<65535, 65535>>
INT32_MAX  == <<32767, 65535>>

Less(a, b) == a[1] < b[1] \/ (a[1] = b[1] /\ a[2] < b[2])

\* a + b and a - b in uint32_t
Add32(a, b) ==
    <<(a[1] + b[1] + (a[2] + b[2]) \div 65536) % 65536,
      (a[2] + b[2]) % 65536>>

Sub32(a, b) ==
    <<(a[1] - b[1] - (IF a[2] < b[2] THEN 1 ELSE 0) + 65536) % 65536,
      (a[2] - b[2] + 65536) % 65536>>

\* the number of the pair a; a pair of 2^31 or more is given as the
\* int32_t with the same bits
Narrow(a) ==
    IF a[1] < 32768 THEN a[1] * 65536 + a[2]
    ELSE (a[1] - 65536) * 65536 + a[2]

\* the loop of str2uint32_smt2 from the i-th character on with res = r, a
\* uint64_t; <<-1, -1>> after "goto INVALID"
RECURSIVE Str2Uint32Loop(_, _, _)
Str2Uint32Loop(str, i, r) ==
    IF i > Len(str) THEN r
    ELSE IF r = <<-1, -1>> THEN r
    ELSE LET ch == str[i]
         IN  IF \/ Less(Wide(429496729), r)
                \/ ch < ZERO_CHAR
                \/ ch > NINE_CHAR
             THEN <<-1, -1>>
             ELSE LET r10   == IF r # <<0, 0>>
                               THEN <<r[1] * 10 + (r[2] * 10) \div 65536,
                                      (r[2] * 10) % 65536>>
                               ELSE r
                      digit == ch - ZERO_CHAR
                  IN  IF Less(<<65535, 65535 - digit>>, r10)
                      THEN <<-1, -1>>
                      ELSE Str2Uint32Loop(str, i + 1,
                              <<r10[1] + (r10[2] + digit) \div 65536,
                                (r10[2] + digit) % 65536>>)

\* str2uint32_smt2: the value stored through resptr, or <<-1, -1>> for
\* "invalid 32-bit integer" and for zero when zero is not allowed
str2uint32_smt2(allow_zero, str) ==
    LET r == Str2Uint32Loop(str, 1, <<0, 0>>)
    IN  IF ~allow_zero /\ r = <<0, 0>> THEN <<-1, -1>> ELSE r

\* parse_uint32_smt2 on the token tok = <<kind, text>>: num is the value
\* stored through resptr and val its number, -1 when nothing is stored
parse_uint32_smt2(w, allow_zero, tok) ==
    IF tok[1] # "decimal"
    THEN LET tk == read_token_aux_smt2(w, tok[2])
         IN  [w |-> perr_smt2(tk.w, "expected decimal constant"), val |-> -1,
              num |-> <<-1, -1>>]
    ELSE LET v == str2uint32_smt2(allow_zero, tok[2])
         IN  IF v = <<-1, -1>>
             THEN [w |-> perr_smt2(w, IF Str2Uint32Loop(tok[2], 1, <<0, 0>>)
                                         = <<-1, -1>>
                                      THEN "invalid 32-bit integer"
                                      ELSE "expected positive non-zero 32-bit integer"),
                   val |-> -1, num |-> v]
             ELSE [w |-> w, val |-> Narrow(v), num |-> v]

-----------------------------------------------------------------------------
(* Tokens, sorts and the term parser.  A sort is one of the records        *)
(* BVSort(n), ArraySort; the tokens of a sort are taken as one token.      *)
(* A term is the sequence of its tokens.                                   *)

Tok(k, name, n, sort) == [k |-> k, name |-> name, n |-> n, sort |-> sort]

LP         == Tok("(", <<>>, 0, NoSort)
RP         == Tok(")", <<>>, 0, NoSort)
Sym(name)  == Tok("sym", name, 0, NoSort)        \* a symbol or keyword
Bits(b)    == Tok("bin", b, Len(b), NoSort)      \* #b followed by b
Bin(n)     == Bits([k \in 1..n |-> ZERO_CHAR])   \* #b0...0 of n bits
Dec(text)  == Tok("dec", text, 0, NoSort)        \* a decimal constant
SortTok(s) == Tok("sort", <<>>, 0, s)

EXCLAM == 33

RECURSIVE Itoa(_)
Itoa(n) == IF n < 10 THEN <<ZERO_CHAR + n>>
           ELSE Itoa(n \div 10) \o <<ZERO_CHAR + (n % 10)>>

boolector_get_sort(e) == IF e.array THEN ArraySort ELSE BVSort(e.width)

\* read_token_smt2 on a given token
read_token_smt2(w, tok) ==
    CASE tok.k = "(" -> [w |-> w, tag |-> "LPAR"]
      [] tok.k = ")" -> [w |-> w, tag |-> "RPAR"]
      [] tok.k = "bin" -> [w |-> w, tag |-> "BINARY_CONSTANT"]
      [] tok.k = "dec" -> [w |-> w, tag |-> "DECIMAL_CONSTANT"]
      [] tok.k = "sym" /\ tok.name = <<UNDERSCORE>> ->
            [w |-> w, tag |-> "UNDERSCORE"]
      [] tok.k = "sym" /\ tok.name # <<UNDERSCORE>> ->
            read_token_aux_smt2(w, tok.name)
      [] OTHER -> [w |-> w, tag |-> "SORT"]

SortRes(w, ok, sort) == [w |-> w, ok |-> ok, sort |-> sort]

\* parse_sort on the token that follows
parse_sort(w, tok, allow_array_sort) ==
    IF tok.k = "sort"
    THEN IF tok.sort.array /\ ~allow_array_sort
         THEN SortRes(perr_smt2(w, "expected '_' at 'Array'"), FALSE, NoSort)
         ELSE SortRes(w, TRUE, tok.sort)
    ELSE
    With(read_token_smt2(w, tok), LAMBDA tk :
    IF tk.tag # "SYMBOL"
    THEN SortRes(perr_smt2(tk.w, "expected '(' or sort keyword"), FALSE,
                 NoSort)
    ELSE
    With(LastNode(tk.w), LAMBDA alias :
    IF alias.sort = 0
    THEN SortRes(perr_smt2(tk.w, "invalid sort"), FALSE, NoSort)
    ELSE SortRes(tk.w, TRUE, alias.sort_alias)))

SetCoo(symbol, id) == SetNode(symbol, id, LAMBDA n : [n EXCEPT !.coo = 1])

\* a binder that takes the node of the symbol read without shadowing it
BindSymbol_reuse(w) ==
    [w  |-> [w EXCEPT !.parser.symbol = SetCoo(@, w.parser.last_node)],
     id |-> w.parser.last_node]

\* "shadow previously defined symbols": the node that the binder uses for
\* the symbol just read, and the world with that node's coo set
BindSymbol(w) ==
    With(LastNode(w), LAMBDA sym :
    IF sym.coo = 0
    THEN [w |-> [w EXCEPT !.parser.symbol = SetCoo(@, sym.id)],
          id |-> sym.id]
    ELSE
    With(new_node_smt2(w.parser.symbol, w.parser.scope_level, "SYMBOL",
                       sym.name), LAMBDA new_sym :
    [w  |-> [w EXCEPT !.parser.symbol =
                SetCoo(insert_symbol_smt2(@, new_sym), new_sym.id)],
     id |-> new_sym.id]))

RECURSIVE RemoveSyms(_, _)
RemoveSyms(symbol, ids) ==
    IF ids = <<>> THEN symbol
    ELSE RemoveSyms(remove_symbol_smt2(symbol, NodeById(symbol, Head(ids))),
                    Tail(ids))

RECURSIVE ParamExps(_, _)
ParamExps(symbol, ids) ==
    IF ids = <<>> THEN <<>>
    ELSE <<NodeById(symbol, Head(ids)).exp>> \o ParamExps(symbol, Tail(ids))

\* BzlaSMT2Item: an element of the work stack
Item(tag, node, exp) ==
    [tag |-> tag, node |-> node, exp |-> exp, num |-> <<0, 0>>]

push_item_smt2(work, tag) == Append(work, Item(tag, 0, NoExp))

Prefix(work, k) == SubSeq(work, 1, k)

\* index of the topmost "(" on the work stack, 0 when there is none
last_lpar_smt2(work) ==
    IF \E k \in 1..Len(work) : work[k].tag = "LPAR"
    THEN CHOOSE k \in 1..Len(work) :
            /\ work[k].tag = "LPAR"
            /\ \A j \in (k + 1)..Len(work) : work[j].tag # "LPAR"
    ELSE 0

\* the tags of the classes BZLA_KEYWORD_TAG_CLASS_SMT2,
\* BZLA_RESERVED_TAG_CLASS_SMT2, BZLA_CORE_TAG_CLASS_SMT2,
\* BZLA_ARRAY_TAG_CLASS_SMT2, BZLA_BITVEC_TAG_CLASS_SMT2 and
\* BZLA_FP_TAG_CLASS_SMT2
TagClass == [keyword  |-> {"NAMED", "NOTES"},
             reserved |-> {"LET", "FORALL", "BANG"},
             core     |-> {"NOT", "EQUAL", "DISTINCT"},
             array    |-> {"ARRAY_SELECT", "ARRAY_STORE"},
             bitvec   |-> {"BV_CONCAT", "BV_AND", "BV_OR", "BV_XOR",
                           "BV_XNOR", "BV_ADD", "BV_SUB", "BV_MUL",
                           "BV_ZERO_EXTEND", "BV_SIGN_EXTEND",
                           "BV_EXT_ROTATE_LEFT", "BV_EXT_ROTATE_RIGHT"},
             fp       |-> {"FP_ROUNDINGMODE_RNE", "FP_ADD", "FP_SUB",
                           "FP_MUL", "FP_DIV"}]

\* The state of one run of parse_term_aux_smt2: the world, the work stack,
\* the tokens toks of which those before i have been read, ok = no failure
\* so far, over = a token after the last one of toks was asked for.
PErr(ps, w, msg) == [ps EXCEPT !.w = perr_smt2(w, msg), !.ok = FALSE]

Over(ps) == [ps EXCEPT !.ok = FALSE, !.over = TRUE]

HasTok(ps) == ps.i <= Len(ps.toks)

\* the next token is read
Read(ps) == read_token_smt2(ps.w, ps.toks[ps.i])

\* parse_open_term, the branch "if (parser->isvarbinding)" after "("; ps
\* has the item LETBIND pushed
OpenVarBinding(ps) ==
    IF ~HasTok(ps) THEN Over(ps)
    ELSE
    With(Read(ps), LAMBDA tk :
    IF tk.tag # "SYMBOL"
    THEN PErr([ps EXCEPT !.i = @ + 1], tk.w, "expected symbol to be bound")
    ELSE
    With(BindSymbol(tk.w), LAMBDA b :
    [ps EXCEPT !.i = @ + 1,
               !.w = [b.w EXCEPT !.parser.open = @ + 1],
               !.work = Append(@, Item("SYMBOL", b.id, NoExp))]))

\* boolector_param for the sorted variable with node id
SortedVarParam(w, id, sort) ==
    [w EXCEPT
       !.parser.open = @ + 1,
       !.parser.bound_vars = @ + 1,
       !.parser.symbol =
          SetNode(@, id, LAMBDA n : [n EXCEPT !.exp =
             MkExp("param", sort.width, FALSE, FALSE,
                   n.name \o <<EXCLAM>> \o Itoa(w.parser.bound_vars), <<>>)])]

\* parse_open_term, the branch "parse <sorted_var>" after "("; ps has the
\* item SORTED_VAR pushed
OpenSortedVar(ps) ==
    IF ps.i + 1 > Len(ps.toks) THEN Over(ps)
    ELSE
    With(Read(ps), LAMBDA tk :
    IF tk.tag # "SYMBOL"
    THEN PErr([ps EXCEPT !.i = @ + 1], tk.w,
              "expected symbol in sorted var after '('")
    ELSE
    With(BindSymbol(tk.w), LAMBDA b :
    With(parse_sort(b.w, ps.toks[ps.i + 1], FALSE), LAMBDA rs :
    IF ~rs.ok THEN [ps EXCEPT !.i = @ + 2, !.w = rs.w, !.ok = FALSE]
    ELSE [ps EXCEPT !.i = @ + 2,
                    !.w = SortedVarParam(rs.w, b.id, rs.sort),
                    !.work = Append(@, Item("SYMBOL", b.id, NoExp))])))

\* parse_open_term, the branch of the attribute :named
OpenNamed(ps) ==
    IF ~HasTok(ps) THEN Over(ps)
    ELSE
    With(Read(ps), LAMBDA tk :
    IF tk.tag # "SYMBOL"
    THEN PErr([ps EXCEPT !.i = @ + 1], tk.w,
              "expected symbol after :named attribute")
    ELSE IF LastNode(tk.w).coo # 0
    THEN PErr([ps EXCEPT !.i = @ + 1], tk.w, "symbol already defined")
    ELSE [ps EXCEPT
            !.i = @ + 1,
            !.w = [tk.w EXCEPT !.parser.symbol =
                      SetCoo(@, tk.w.parser.last_node)],
            !.work = Append(@, Item("SYMBOL", tk.w.parser.last_node,
                                    NoExp))])

\* the opening of let and of a quantifier: read_lpar_smt2, then the items
\* "(" and list, and the flag that the next "(" opens a binding
OpenBinder(ps, list, msg) ==
    IF ~HasTok(ps) THEN Over(ps)
    ELSE
    With(Read(ps), LAMBDA tk :
    IF tk.tag # "LPAR" THEN PErr([ps EXCEPT !.i = @ + 1], tk.w, msg)
    ELSE [ps EXCEPT
            !.i = @ + 1,
            !.w = IF list = "PARLETBINDING"
                  THEN [tk.w EXCEPT !.parser.open = @ + 1,
                                    !.parser.isvarbinding = TRUE]
                  ELSE [tk.w EXCEPT !.parser.open = @ + 1,
                                    !.parser.sorted_var = TRUE,
                                    !.parser.need_quantifiers = TRUE],
            !.work = push_item_smt2(push_item_smt2(@, "LPAR"), list)])

parse_open_term_quant(ps) ==
    OpenBinder(ps, "SORTED_VARS", "expected '(' after 'forall'")

\* read_rpar_smt2 on the next token of a term
ReadRparOf(ps, msg) ==
    IF ~HasTok(ps) THEN Over(ps)
    ELSE With(Read(ps), LAMBDA tk :
            IF tk.tag # "RPAR" THEN PErr([ps EXCEPT !.i = @ + 1], tk.w, msg)
            ELSE [ps EXCEPT !.i = @ + 1, !.w = tk.w])

\* parse_uint32_smt2 on the next token of a term
Uint32Of(ps, allow_zero) ==
    parse_uint32_smt2(ps.w, allow_zero,
                      IF ps.toks[ps.i].k = "dec"
                      THEN <<"decimal", ps.toks[ps.i].name>>
                      ELSE <<"symbol", ps.toks[ps.i].name>>)

\* check_open_term_indexed: the message reported, "" when there is none
check_open_term_indexed(work) ==
    IF Len(work) < 3 THEN "expected '(' before '(_"
    ELSE IF work[Len(work) - 2].tag # "LPAR"
    THEN "expected '(' at ... before '(_"
    ELSE ""

\* parse_open_term_indexed_parametric with nargs = 1; the item of "_" is
\* the top of the work stack and item_open the one below
parse_open_term_indexed_parametric(ps, tag, node, msg) ==
    IF check_open_term_indexed(ps.work) # ""
    THEN PErr(ps, ps.w, check_open_term_indexed(ps.work))
    ELSE IF ~HasTok(ps) THEN Over(ps)
    ELSE
    With(Uint32Of(ps, TRUE), LAMBDA r :
    IF r.num = <<-1, -1>> THEN [ps EXCEPT !.w = r.w, !.ok = FALSE, !.i = @ + 1]
    ELSE
    With(ReadRparOf(
            [ps EXCEPT !.w = r.w, !.i = @ + 1,
                       !.work = Append(Prefix(@, Len(@) - 2),
                                   [Item(tag, node.id, NoExp) EXCEPT
                                       !.num = r.num])],
            msg), LAMBDA rr :
    IF rr.ok THEN [rr EXCEPT !.w.parser.open = @ - 1] ELSE rr))

\* is_bvconst_str_smt2
is_bvconst_str_smt2(str) ==
    /\ Len(str) >= 3
    /\ str[1] = 98
    /\ str[2] = 118
    /\ \A k \in 3..Len(str) : str[k] >= ZERO_CHAR /\ str[k] <= NINE_CHAR

\* bzla_util_dec_to_bin_str: the binary digits of the number written in
\* decimal digits, without leading zeros; no digit for the number zero
bzla_util_dec_to_bin_str(decstr) ==
    LET RECURSIVE bin(_)
        bin(n) == IF n = 0 THEN <<>>
                  ELSE bin(n \div 2) \o <<ZERO_CHAR + (n % 2)>>
    IN  bin(For(1, Len(decstr), 0,
                LAMBDA acc, k : acc * 10 + decstr[k] - ZERO_CHAR))

\* bvconst_extended that puts the zeros after the digits constr
bvconst_extended_low(constr, width) ==
    boolector_const(constr
                    \o [k \in 1..(width - Len(constr)) |-> ZERO_CHAR])

\* the constant of parse_open_term_indexed for the digits constr, shorter
\* than width: boolector_zero, or the zero extension of constr
bvconst_extended(constr, width) ==
    boolector_const([k \in 1..(width - Len(constr)) |-> ZERO_CHAR]
                    \o constr)

\* parse_open_term_indexed, the branch of (_ bvK n); str is the symbol bvK
OpenBvConst(ps, str) ==
    IF ~HasTok(ps) THEN Over(ps)
    ELSE
    With(<<bzla_util_dec_to_bin_str(SubSeq(str, 3, Len(str))),
           Uint32Of(ps, FALSE)>>, LAMBDA c :
    IF c[2].num = <<-1, -1>>
    THEN [ps EXCEPT !.w = c[2].w, !.ok = FALSE, !.i = @ + 1]
    ELSE IF Less(c[2].num, Wide(Len(c[1])))
    THEN PErr([ps EXCEPT !.i = @ + 1], c[2].w,
              "decimal constant needs bits which exceeds bit-width")
    ELSE ReadRparOf(
            [ps EXCEPT !.w = [c[2].w EXCEPT !.parser.open = @ - 1],
                       !.i = @ + 1,
                       !.work = Append(Prefix(@, Len(@) - 2),
                                   Item("EXP", 0,
                                        IF Wide(Len(c[1])) = c[2].num
                                        THEN boolector_const(c[1])
                                        ELSE bvconst_extended(c[1],
                                                              c[2].val)))],
            "expected ')' to close '(_ bv..'"))

\* parse_open_term_indexed; the item of "_" is the top of the work stack
parse_open_term_indexed(ps) ==
    IF ~(Len(ps.work) >= 2 /\ ps.work[Len(ps.work) - 1].tag = "LPAR")
    THEN PErr(ps, ps.w, "expected '(' before")
    ELSE IF ~HasTok(ps) THEN Over(ps)
    ELSE
    With(Read(ps), LAMBDA tk :
    IF tk.tag = "BV_ZERO_EXTEND"
    THEN parse_open_term_indexed_parametric(
            [ps EXCEPT !.w = tk.w, !.i = @ + 1], tk.tag, LastNode(tk.w),
            "expected ')' to close '(_ zero_extend'")
    ELSE IF tk.tag = "BV_SIGN_EXTEND"
    THEN parse_open_term_indexed_parametric(
            [ps EXCEPT !.w = tk.w, !.i = @ + 1], tk.tag, LastNode(tk.w),
            "expected ')' to close '(_ sign_extend'")
    ELSE IF tk.tag = "SYMBOL" /\ is_bvconst_str_smt2(ps.toks[ps.i].name)
    THEN OpenBvConst([ps EXCEPT !.w = tk.w, !.i = @ + 1],
                     ps.toks[ps.i].name)
    ELSE PErr([ps EXCEPT !.i = @ + 1], tk.w, "invalid parametric term"))

\* node is parser->last_node, the node of the item pushed last
parse_open_term_item_with_node(ps, tag, node) ==
    IF tag \in TagClass.keyword THEN PErr(ps, ps.w, "unexpected keyword")
    ELSE IF tag = "LET"
    THEN OpenBinder(ps, "PARLETBINDING", "expected '(' after 'let'")
    ELSE IF tag = "FORALL" THEN parse_open_term_quant(ps)
    ELSE IF tag = "UNDERSCORE" THEN parse_open_term_indexed(ps)
    ELSE IF tag = "BANG"
    THEN IF Len(ps.work) >= 2 /\ ps.work[Len(ps.work) - 1].tag = "LPAR"
         THEN ps
         ELSE PErr(ps, ps.w, "expected '(' before '!'")
    ELSE IF tag = "SYMBOL"
    THEN IF node.exp = NoExp THEN PErr(ps, ps.w, "undefined symbol")
         ELSE [ps EXCEPT !.work[Len(ps.work)] =
                            Item("EXP", node.id, node.exp)]
    ELSE IF tag = "ATTRIBUTE" THEN PErr(ps, ps.w, "unexpected attribute")
    ELSE IF tag = "FP_ROUNDINGMODE_RNE"
    THEN [ps EXCEPT !.work[Len(ps.work)] =
             Item("EXP", node.id,
                  MkExp("var", 1, FALSE, FALSE, <<>>, <<>>))]
    ELSE ps

\* ps is the state after the token tok with the given tag has been read and
\* its item pushed; p is the parser before
OpenTerm(ps, p, tag, tok) ==
    IF tag = "LPAR"
    THEN IF p.isvarbinding
         THEN OpenVarBinding(
                 [ps EXCEPT !.work = push_item_smt2(@, "LETBIND"),
                            !.w.parser.isvarbinding = FALSE])
         ELSE IF p.sorted_var
         THEN OpenSortedVar(
                 [ps EXCEPT !.work = push_item_smt2(@, "SORTED_VAR"),
                            !.w.parser.sorted_var = FALSE])
         ELSE [ps EXCEPT !.w.parser.open = @ + 1]
    ELSE IF p.isvarbinding THEN PErr(ps, ps.w, "expected var binding")
    ELSE IF p.sorted_var THEN PErr(ps, ps.w, "expected sorted variable")
    ELSE IF tag = "NAMED" THEN OpenNamed(ps)
    ELSE IF tag \in {"SYMBOL", "ATTRIBUTE", "UNDERSCORE"}
                    \cup TagClass.keyword
                    \cup TagClass.reserved \cup TagClass.core
                    \cup TagClass.array \cup TagClass.bitvec
                    \cup TagClass.fp
    THEN parse_open_term_item_with_node(ps, tag, LastNode(ps.w))
    ELSE IF tag = "BINARY_CONSTANT"
    THEN [ps EXCEPT !.work[Len(ps.work)] =
             Item("EXP", 0, boolector_const(tok.name))]
    ELSE IF tag = "SORT" THEN Over(ps)
    ELSE PErr(ps, ps.w, "unexpected token")

parse_open_term(ps, tag, tok) ==
    OpenTerm([ps EXCEPT !.w.parser.expecting_body = "",
                        !.work = push_item_smt2(@, tag)],
             ps.w.parser, tag, tok)

\* the sort of a function node: the widths of its domain
Domain(e) ==
    IF ~e.fun THEN <<>>
    ELSE IF e.kind = "uf" THEN [i \in 1..Len(e.args) |-> e.args[i].width]
    ELSE [i \in 1..(Len(e.args) - 1) |-> e.args[i].width]

is_boolean_exp_smt2(item) ==
    /\ ~boolector_is_array(item.exp)
    /\ ~boolector_is_fun(item.exp)
    /\ boolector_bv_get_width(item.exp) = 1

\* the nodes of the items work[from], ..., work[to]
ItemNodes(work, from, to) ==
    [k \in 1..(to - from + 1) |-> work[from + k - 1].node]

\* the item at io is replaced by an item for exp and becomes the top
Reduce(ps, io, exp) ==
    [ps EXCEPT !.work = Append(Prefix(@, io - 1), Item("EXP", 0, exp))]

\* In the operators that follow work is the work stack, io the index of
\* item_open, ic = io + 1 that of item_cur, and ids are the nodes of the
\* items item_cur[1], ..., item_cur[nargs - 1].
close_term_quant(ps, work, io, ic, nargs, ids) ==
    IF \E k \in 1..(nargs - 1) : work[ic + k].tag # "SYMBOL"
    THEN PErr(ps, ps.w, "expected symbol as argument of 'forall'")
    ELSE IF work[ic + nargs].tag \notin {"SYMBOL", "EXP"}
    THEN PErr(ps, ps.w, "expected expression as argument of 'forall'")
    ELSE IF ~is_boolean_exp_smt2(work[ic + nargs])
    THEN PErr(ps, ps.w, "body of 'forall' is not a boolean term")
    ELSE Reduce([ps EXCEPT !.w.parser.symbol = RemoveSyms(@, ids)], io,
                MkExp("forall", 1, FALSE, FALSE, <<>>,
                      Append(ParamExps(ps.w.parser.symbol, ids),
                             work[ic + nargs].exp)))

\* close_term, the branch of a function application or a list
CloseExp(ps, work, io, ic, nargs) ==
    IF nargs # 0 /\ boolector_is_fun(work[ic].exp)
    THEN IF nargs # Len(Domain(work[ic].exp))
         THEN PErr(ps, ps.w, "invalid number of arguments")
         ELSE IF \E k \in 1..nargs :
                    \/ work[ic + k].exp.array
                    \/ work[ic + k].exp.fun
                    \/ work[ic + k].exp.width # Domain(work[ic].exp)[k]
         THEN PErr(ps, ps.w, "invalid sort for argument")
         ELSE Reduce(ps, io,
                 MkExp("apply", work[ic].exp.width, FALSE, FALSE, <<>>,
                       [k \in 1..(nargs + 1) |-> work[ic + k - 1].exp]))
    ELSE IF nargs # 0
    THEN PErr(ps, ps.w, "list with expressions")
    ELSE [ps EXCEPT !.work = Append(Prefix(work, io - 1), work[ic])]

\* close_term, the branch of (! <term> :named <symbol>)
CloseBang(ps, work, io, ic, nargs) ==
    IF nargs # 3
    THEN PErr(ps, ps.w, "invalid annotation syntax, expected 3 arguments")
    ELSE IF work[ic + 1].tag # "EXP"
    THEN PErr(ps, ps.w, "invalid annotation syntax, expected expression as first argument")
    ELSE IF work[ic + 2].tag # "NAMED"
    THEN PErr(ps, ps.w, "invalid annotation syntax, expected :named attribute as second argument")
    ELSE IF work[ic + 3].tag # "SYMBOL"
    THEN PErr(ps, ps.w, "invalid annotation syntax, expected symbol as third argument")
    ELSE Reduce(ps, io, work[ic + 1].exp)

CloseNot(ps, work, io, ic, nargs) ==
    IF nargs # 1
    THEN PErr(ps, ps.w, "'not' with wrong number of arguments")
    ELSE IF boolector_is_array(work[ic + 1].exp)
    THEN PErr(ps, ps.w, "unexpected array expression as argument to 'not'")
    ELSE IF boolector_bv_get_width(work[ic + 1].exp) # 1
    THEN PErr(ps, ps.w, "unexpected bit-vector width as argument to 'not'")
    ELSE Reduce(ps, io, MkExp("not", 1, FALSE, FALSE, <<>>,
                              <<work[ic + 1].exp>>))

\* close_term, the branch "let (<var_binding>+) <term>"
CloseLet(ps, work, io, ic, nargs, ids) ==
    IF \E k \in 1..(nargs - 1) : work[ic + k].tag # "SYMBOL"
    THEN PErr(ps, ps.w, "expected symbol as argument of 'let'")
    ELSE IF work[ic + nargs].tag \notin {"SYMBOL", "EXP"}
    THEN PErr(ps, ps.w, "expected expression as argument of 'let'")
    ELSE Reduce([ps EXCEPT !.w.parser.symbol = RemoveSyms(@, ids)], io,
                work[ic + nargs].exp)

\* close_term, the branch <var_binding>
CloseLetBind(ps, work, io, ic, nargs) ==
    IF nargs = 1 THEN PErr(ps, ps.w, "term to be bound missing")
    ELSE IF nargs > 2 THEN PErr(ps, ps.w, "second term bound")
    ELSE IF work[ic + 2].tag # "EXP"
    THEN PErr(ps, ps.w, "expected expression in 'let' var binding")
    ELSE [ps EXCEPT
            !.w.parser.symbol =
                SetNode(@, work[ic + 1].node, LAMBDA n :
                   [n EXCEPT !.exp = work[ic + 2].exp, !.bound = 1]),
            !.w.parser.isvarbinding = TRUE,
            !.work = Append(Prefix(work, io - 1), work[ic + 1])]

\* close_term, the branches (<var_binding>+) and (<sorted_var>+)
CloseList(ps, work, io, ic, nargs, body) ==
    [ps EXCEPT
       !.w.parser.isvarbinding = IF body = "let" THEN FALSE ELSE @,
       !.w.parser.sorted_var   = IF body = "let" THEN @ ELSE FALSE,
       !.w.parser.expecting_body = body,
       !.work = Prefix(work, io - 1) \o SubSeq(work, ic + 1, ic + nargs)]

\* close_term, the branch <sorted_var>
CloseSortedVar(ps, work, io, ic, nargs) ==
    IF nargs # 1
    THEN PErr(ps, ps.w, "expected only one variable at sorted var")
    ELSE [ps EXCEPT
            !.w.parser.sorted_var = TRUE,
            !.work = Append(Prefix(work, io - 1),
                            Item("SYMBOL", work[ic + 1].node, NoExp))]

boolector_is_equal_sort(a, b) ==
    a.array = b.array /\ a.fun = b.fun /\ a.width = b.width
    /\ Domain(a) = Domain(b)

\* a call of the backend with a null node, or with a node of a kind that
\* the function called does not take, ends the process
Abort(w) == [w EXCEPT !.bzla.aborted = TRUE]

\* the node that the function fun of the backend builds for a and b;
\* boolector_xnor(a, b) is the negation of boolector_bv_xor(a, b)
Binary(fun, a, b) ==
    CASE fun = "concat" ->
           MkExp(fun, a.width + b.width, FALSE, FALSE, <<>>, <<a, b>>)
      [] fun = "xnor" ->
           MkExp("not", a.width, FALSE, FALSE, <<>>,
                 <<MkExp("xor", a.width, FALSE, FALSE, <<>>, <<a, b>>)>>)
      [] fun \in {"eq", "ne"} -> MkExp(fun, 1, FALSE, FALSE, <<>>, <<a, b>>)
      [] OTHER -> MkExp(fun, a.width, FALSE, FALSE, <<>>, <<a, b>>)

\* every array of the model has the sort ArraySort, whose index has width 1
boolector_array_get_index_width(e) == ArraySort.width

\* the function of the backend that close_term passes for each tag
BvFun == [BV_CONCAT |-> "concat", BV_AND |-> "and", BV_OR |-> "or",
          BV_XOR |-> "xor", BV_XNOR |-> "xnor", BV_ADD |-> "add",
          BV_SUB |-> "sub", BV_MUL |-> "mul"]

\* check_nargs_smt2: the message reported, "" when there is none
check_nargs_smt2(actual, required) ==
    IF actual - required = -1 THEN "one argument missing"
    ELSE IF actual - required < 0 THEN "arguments missing"
    ELSE IF actual - required = 1 THEN "one argument too much"
    ELSE IF actual - required > 0 THEN "arguments too much"
    ELSE ""

\* check_arg_sorts_match_smt2 with offset 0 for the expressions p[1], ...,
\* p[nargs]: the message reported, "" when there is none
check_arg_sorts_match_smt2(p, nargs) ==
    IF boolector_is_array(p[1])
    THEN IF \E i \in 2..nargs : ~boolector_is_array(p[i])
         THEN "first argument is an array but argument is not"
         ELSE IF \E i \in 2..nargs : p[i].width # p[1].width
         THEN "argument is an array of bit-vectors of another width"
         ELSE IF \E i \in 2..nargs :
                    boolector_array_get_index_width(p[i])
                       # boolector_array_get_index_width(p[1])
         THEN "argument is an array with index bit-vectors of another width"
         ELSE ""
    ELSE IF boolector_is_fun(p[1])
    THEN IF \E i \in 2..nargs : ~boolector_is_fun(p[i])
         THEN "first argument is a function but argument not"
         ELSE IF \E i \in 2..nargs : ~boolector_is_equal_sort(p[1], p[i])
         THEN "sort of argument does not match with sort of first argument"
         ELSE ""
    ELSE IF \E i \in 1..nargs : boolector_is_array(p[i])
         THEN "argument is an array but first argument not"
         ELSE IF \E i \in 1..nargs : boolector_is_fun(p[i])
         THEN "argument is a function but first argument not"
         ELSE IF \E i \in 1..nargs : p[i].width # p[1].width
         THEN "argument is a bit-vector of another width"
         ELSE ""

\* check_arg_sorts_match_smt2 with any offset: p[offset + 1] is compared
\* with the expressions after it up to p[nargs], and in the last branch
\* with itself too; a function is compared with p[1]
check_arg_sorts_match_smt2_offset(p, offset, nargs) ==
    With(offset + 1, LAMBDA j :
    IF boolector_is_array(p[j])
    THEN IF \E i \in (j + 1)..nargs : ~boolector_is_array(p[i])
         THEN "first argument is an array but argument is not"
         ELSE IF \E i \in (j + 1)..nargs : p[i].width # p[j].width
         THEN "argument is an array of bit-vectors of another width"
         ELSE IF \E i \in (j + 1)..nargs :
                    boolector_array_get_index_width(p[i])
                       # boolector_array_get_index_width(p[j])
         THEN "argument is an array with index bit-vectors of another width"
         ELSE ""
    ELSE IF boolector_is_fun(p[j])
    THEN IF \E i \in (j + 1)..nargs : ~boolector_is_fun(p[i])
         THEN "first argument is a function but argument not"
         ELSE IF \E i \in (j + 1)..nargs :
                    ~boolector_is_equal_sort(p[1], p[i])
         THEN "sort of argument does not match with sort of first argument"
         ELSE ""
    ELSE IF \E i \in j..nargs : boolector_is_array(p[i])
         THEN "argument is an array but first argument not"
         ELSE IF \E i \in j..nargs : boolector_is_fun(p[i])
         THEN "argument is a function but first argument not"
         ELSE IF \E i \in j..nargs : p[i].width # p[j].width
         THEN "argument is a bit-vector of another width"
         ELSE "")

\* boolector_true: the constant 1 of width 1
boolector_true == boolector_const(<<49>>)

\* p are the expressions of the items item_cur[1], ..., item_cur[nargs];
\* the node made is the stub that the code makes for every operator
close_term_bin_rm_fp_fun(ps, io, p, nargs) ==
    IF check_nargs_smt2(nargs, 3) # ""
    THEN PErr(ps, ps.w, check_nargs_smt2(nargs, 3))
    ELSE IF check_arg_sorts_match_smt2_offset(p, 1, 2) # ""
    THEN PErr(ps, ps.w, check_arg_sorts_match_smt2_offset(p, 1, 2))
    ELSE Reduce(ps, io, boolector_true)

\* p are the expressions of the items item_cur[1], ..., item_cur[nargs]
close_term_bin_bv_left_associative(ps, io, p, nargs, tag) ==
    IF nargs < 2 THEN PErr(ps, ps.w, "argument missing")
    ELSE IF tag # "BV_CONCAT" /\ check_arg_sorts_match_smt2(p, nargs) # ""
    THEN PErr(ps, ps.w, check_arg_sorts_match_smt2(p, nargs))
    ELSE IF \E i \in 1..nargs : boolector_is_array(p[i])
                                   \/ boolector_is_fun(p[i])
    THEN PErr(ps, ps.w, "argument is an array or a function")
    ELSE Reduce(ps, io,
            IF tag = "BV_XNOR"
            THEN With(For(2, nargs, p[1], LAMBDA acc, i :
                             Binary("xor", acc, p[i])),
                      LAMBDA e : MkExp("not", e.width, FALSE, FALSE, <<>>,
                                       <<e>>))
            ELSE For(2, nargs, p[1], LAMBDA acc, i :
                        Binary(BvFun[tag], acc, p[i])))

\* the reduction of "=" that compares every argument with the first
CloseEqual_with_first(ps, io, p, nargs, tag) ==
    IF nargs = 0 THEN PErr(ps, ps.w, "arguments missing")
    ELSE IF nargs = 1 THEN PErr(ps, ps.w, "only one argument")
    ELSE IF check_arg_sorts_match_smt2(p, nargs) # ""
    THEN PErr(ps, ps.w, check_arg_sorts_match_smt2(p, nargs))
    ELSE Reduce(ps, io,
            IF tag = "EQUAL"
            THEN For(3, nargs, Binary("eq", p[1], p[2]), LAMBDA acc, i :
                        Binary("and", acc, Binary("eq", p[1], p[i])))
            ELSE For(1, nargs - 1, NoExp, LAMBDA acc, i :
                    For(i + 1, nargs, acc, LAMBDA old, j :
                           IF old # NoExp
                           THEN Binary("and", old, Binary("ne", p[i], p[j]))
                           ELSE Binary("ne", p[i], p[j]))))

\* close_term, the branches of "=" and of distinct
CloseEqual(ps, io, p, nargs, tag) ==
    IF nargs = 0 THEN PErr(ps, ps.w, "arguments missing")
    ELSE IF nargs = 1 THEN PErr(ps, ps.w, "only one argument")
    ELSE IF check_arg_sorts_match_smt2(p, nargs) # ""
    THEN PErr(ps, ps.w, check_arg_sorts_match_smt2(p, nargs))
    ELSE Reduce(ps, io,
            IF tag = "EQUAL"
            THEN For(3, nargs, Binary("eq", p[1], p[2]), LAMBDA acc, i :
                        Binary("and", acc, Binary("eq", p[i - 1], p[i])))
            ELSE For(1, nargs - 1, NoExp, LAMBDA acc, i :
                    For(i + 1, nargs, acc, LAMBDA old, j :
                           IF old # NoExp
                           THEN Binary("and", old, Binary("ne", p[i], p[j]))
                           ELSE Binary("ne", p[i], p[j]))))

\* close_term, the branches of select and of store; boolector_read and
\* boolector_write end the process when an argument is a function
CloseArray(ps, io, p, nargs, tag) ==
    IF check_nargs_smt2(nargs, IF tag = "ARRAY_SELECT" THEN 2 ELSE 3) # ""
    THEN PErr(ps, ps.w,
              check_nargs_smt2(nargs, IF tag = "ARRAY_SELECT" THEN 2 ELSE 3))
    ELSE IF ~boolector_is_array(p[1])
    THEN PErr(ps, ps.w, "first argument is not an array")
    ELSE IF \E i \in 2..nargs : boolector_is_array(p[i])
    THEN PErr(ps, ps.w, "argument is an array")
    ELSE IF boolector_bv_get_width(p[2])
               # boolector_array_get_index_width(p[1])
    THEN PErr(ps, ps.w, "first (array) argument has index bit-width but the second (index) argument has bit-width")
    ELSE IF tag = "ARRAY_STORE"
            /\ boolector_bv_get_width(p[1]) # boolector_bv_get_width(p[3])
    THEN PErr(ps, ps.w, "first (array) argument has element bit-width but the third (stored bit-vector) argument has bit-width")
    ELSE IF \E i \in 2..nargs : boolector_is_fun(p[i])
    THEN [ps EXCEPT !.w = Abort(@), !.ok = FALSE]
    ELSE Reduce(ps, io,
            IF tag = "ARRAY_SELECT"
            THEN MkExp("read", p[1].width, FALSE, FALSE, <<>>, p)
            ELSE MkExp("write", p[1].width, TRUE, FALSE, <<>>, p))

\* check_not_array_or_uf_args_smt2 for the expressions p[1], ..., p[nargs]:
\* the message reported, "" when there is none
check_not_array_or_uf_args_smt2(p, nargs) ==
    IF \E i \in 1..nargs :
          /\ boolector_is_array(p[i]) \/ boolector_is_fun(p[i])
          /\ \A j \in 1..(i - 1) :
                ~boolector_is_array(p[j]) /\ ~boolector_is_fun(p[j])
          /\ boolector_is_array(p[i])
    THEN "argument is an array"
    ELSE IF \E i \in 1..nargs : boolector_is_fun(p[i])
    THEN "argument is a function"
    ELSE ""

\* boolector_uext and boolector_sext: the node fun of e extended by the
\* uint32_t num, which is kept in the field name
Extend(fun, e, num) ==
    MkExp(fun, Narrow(Add32(Wide(boolector_bv_get_width(e)), num)), FALSE,
          FALSE, num, <<e>>)

\* num is item_cur->num and p[k] the expression of item_cur[k]
close_term_extend_bv_fun(ps, io, num, p, nargs, fun) ==
    IF check_nargs_smt2(nargs, 1) # ""
    THEN PErr(ps, ps.w, check_nargs_smt2(nargs, 1))
    ELSE IF check_not_array_or_uf_args_smt2(p, nargs) # ""
    THEN PErr(ps, ps.w, check_not_array_or_uf_args_smt2(p, nargs))
    ELSE IF Less(Sub32(INT32_MAX, num), Wide(boolector_bv_get_width(p[1])))
    THEN PErr(ps, ps.w, "resulting bit-width too large")
    ELSE Reduce(ps, io, Extend(fun, p[1], num))

\* translate_ext_rotate_smt2: bzla_bv_to_uint64 of the digits of the
\* constant shift, then boolector_roli or boolector_rori, whose node keeps
\* the number of bits in the field name; "assert(shift_width < ...)" is
\* compiled out
translate_ext_rotate_smt2(exp, shift, is_left) ==
    MkExp(IF is_left THEN "roli" ELSE "rori", boolector_bv_get_width(exp),
          FALSE, FALSE,
          Wide(For(1, Len(shift.name), 0,
                   LAMBDA acc, k : acc * 2 + shift.name[k] - ZERO_CHAR)),
          <<exp>>)

\* close_term, the branch of ext_rotate_left and ext_rotate_right
CloseExtRotate(ps, io, p, nargs, is_left) ==
    IF check_nargs_smt2(nargs, 2) # ""
    THEN PErr(ps, ps.w, check_nargs_smt2(nargs, 2))
    ELSE IF check_not_array_or_uf_args_smt2(p, nargs) # ""
    THEN PErr(ps, ps.w, check_not_array_or_uf_args_smt2(p, nargs))
    ELSE IF ~boolector_is_const(p[2])
    THEN PErr(ps, ps.w, "second argument is not a bit vector constant")
    ELSE Reduce(ps, io, translate_ext_rotate_smt2(p[1], p[2], is_left))

\* close_term from "check if operands are expressions" to the end of the
\* branches
CloseTag(ps, work, io, ic, nargs, tag) ==
    IF /\ tag \notin {"LET", "LETBIND", "PARLETBINDING", "SORTED_VAR",
                      "SORTED_VARS", "FORALL", "BANG"}
       /\ \E k \in (IF tag \in {"FP_ADD", "FP_SUB", "FP_MUL", "FP_DIV"}
                     THEN 2 ELSE 1)..nargs : work[ic + k].tag # "EXP"
    THEN PErr(ps, ps.w, "expected expression")
    ELSE
    CASE tag = "EXP"     -> CloseExp(ps, work, io, ic, nargs)
      [] tag = "BANG"    -> CloseBang(ps, work, io, ic, nargs)
      [] tag = "NOT"     -> CloseNot(ps, work, io, ic, nargs)
      [] tag \in {"EQUAL", "DISTINCT"} ->
            CloseEqual(ps, io, [k \in 1..nargs |-> work[ic + k].exp], nargs,
                       tag)
      [] tag \in TagClass.array ->
            CloseArray(ps, io, [k \in 1..nargs |-> work[ic + k].exp], nargs,
                       tag)
      [] tag \in {"BV_ZERO_EXTEND", "BV_SIGN_EXTEND"} ->
            close_term_extend_bv_fun(
               ps, io, work[ic].num,
               [k \in 1..nargs |-> work[ic + k].exp], nargs,
               IF tag = "BV_ZERO_EXTEND" THEN "uext" ELSE "sext")
      [] tag \in {"BV_EXT_ROTATE_LEFT", "BV_EXT_ROTATE_RIGHT"} ->
            CloseExtRotate(ps, io, [k \in 1..nargs |-> work[ic + k].exp],
                           nargs, tag = "BV_EXT_ROTATE_LEFT")
      [] tag \in {"FP_ADD", "FP_SUB", "FP_MUL", "FP_DIV"} ->
            close_term_bin_rm_fp_fun(
               ps, io, [k \in 1..nargs |-> work[ic + k].exp], nargs)
      [] tag \in DOMAIN BvFun ->
            close_term_bin_bv_left_associative(
               ps, io, [k \in 1..nargs |-> work[ic + k].exp], nargs, tag)
      [] tag = "LET"     ->
            CloseLet(ps, work, io, ic, nargs,
                     ItemNodes(work, ic + 1, ic + nargs - 1))
      [] tag = "LETBIND" -> CloseLetBind(ps, work, io, ic, nargs)
      [] tag = "PARLETBINDING" -> CloseList(ps, work, io, ic, nargs, "let")
      [] tag = "FORALL"  ->
            close_term_quant(ps, work, io, ic, nargs,
                             ItemNodes(work, ic + 1, ic + nargs - 1))
      [] tag = "SORTED_VAR" -> CloseSortedVar(ps, work, io, ic, nargs)
      [] tag = "SORTED_VARS" ->
            CloseList(ps, work, io, ic, nargs, "quantifier")
      [] OTHER -> PErr(ps, ps.w,
                       "internal parse error: can not close yet unsupported")

\* close_term from the search of the last "(" on; "parser->open = open - 1"
\* is reached when the branch has not failed
CloseAt(ps, work, io) ==
    IF io + 1 > Len(work) THEN PErr(ps, ps.w, "unexpected '()'")
    ELSE With(CloseTag(ps, work, io, io + 1, Len(work) - io - 1,
                       work[io + 1].tag), LAMBDA r :
            IF r.ok THEN [r EXCEPT !.w.parser.open = ps.w.parser.open - 1]
            ELSE r)

close_term(ps) ==
    IF ps.w.parser.expecting_body # ""
    THEN PErr(ps, ps.w, "body to 'let' missing")
    ELSE IF ps.w.parser.open = 0 THEN PErr(ps, ps.w, "expected expression")
    ELSE CloseAt(ps, ps.work, last_lpar_smt2(ps.work))

\* one pass of the loop of parse_term_aux_smt2; tk is the token read
TermToken(ps, tk, tok) ==
    IF tk.tag = "RPAR" THEN close_term([ps EXCEPT !.w = tk.w, !.i = @ + 1])
    ELSE parse_open_term([ps EXCEPT !.w = tk.w, !.i = @ + 1], tk.tag, tok)

\* the loop of parse_term_aux_smt2
RECURSIVE TermLoop(_)
TermLoop(ps) ==
    IF ~HasTok(ps) THEN Over(ps)
    ELSE With(TermToken(ps, Read(ps), ps.toks[ps.i]), LAMBDA ps2 :
              IF ps2.ok /\ ps2.w.parser.open # 0 THEN TermLoop(ps2) ELSE ps2)

\* The result of parsing a term: the world, ok = the value returned, the
\* node, the index i of the first token not read, and over.
TermRes(w, ok, exp, i, over) ==
    [w |-> w, ok |-> ok, exp |-> exp, i |-> i, over |-> over]

\* parse_term_aux_smt2 after its loop
TermEnd(ps, work_cnt) ==
    IF ~ps.ok
    THEN TermRes([ps.w EXCEPT !.parser.work = ps.work], FALSE, NoExp, ps.i,
                 ps.over)
    ELSE IF Len(ps.work) - work_cnt # 1
    THEN TermRes(perr_smt2([ps.w EXCEPT !.parser.work = ps.work],
                           "internal parse error: worker stack"),
                 FALSE, NoExp, ps.i, FALSE)
    ELSE IF ps.work[Len(ps.work)].tag # "EXP"
    THEN TermRes(perr_smt2(
                    [ps.w EXCEPT !.parser.work = Prefix(ps.work, work_cnt)],
                    "internal parse error: failed to translate parsed term"),
                 FALSE, NoExp, ps.i, FALSE)
    ELSE TermRes([ps.w EXCEPT !.parser.work = Prefix(ps.work, work_cnt)],
                 TRUE, ps.work[Len(ps.work)].exp, ps.i, FALSE)

\* the term that starts at the token toks[i]
parse_term_aux_smt2(w, toks, i) ==
    TermEnd(TermLoop([w |-> [w EXCEPT !.parser.open = 0],
                      work |-> w.parser.work, toks |-> toks, i |-> i,
                      ok |-> TRUE, over |-> FALSE]),
            Len(w.parser.work))

parse_term_smt2(w, toks) == parse_term_aux_smt2(w, toks, 1)

\* read_rpar_smt2 after a term, where tokens of the command may be left:
\* a token other than ")" is an error
ReadRpar(w, toks, i, msg) ==
    IF i > Len(toks) THEN [w |-> w, ok |-> TRUE, over |-> FALSE]
    ELSE IF toks[i].k = ")" THEN [w |-> w, ok |-> FALSE, over |-> TRUE]
    ELSE [w |-> perr_smt2(read_token_smt2(w, toks[i]).w, msg),
          ok |-> FALSE, over |-> FALSE]

-----------------------------------------------------------------------------
(* Commands.  A command is a tuple whose first element is its name:        *)
(*   <<"set-info", keyword, value>>     <<"set-option", keyword, bool>>     *)
(*   <<"declare-const", name, sort>>    <<"declare-fun", name, sorts, sort>>*)
(*   <<"define-fun", name, <<<<name, sort>>, ...>>, sort, term>>           *)
(*   <<"assert", term>>   <<"check-sat">>   <<"check-sat-assuming", terms>>*)
(*   <<"push", token>>    <<"pop", token>>  <<"model">>   <<"exit">>       *)
(*   <<")">>  a closing parenthesis in place of a command   <<"eof">>      *)
(* where sort is the token of a sort, term the tokens of a term, terms the *)
(* tokens of the terms followed by the ")" of the list, and token is       *)
(* <<"decimal", digits>> or <<"symbol", name>>.                            *)


\* the result of a command function: the world and the value returned
Ret(w, r) == [w |-> w, ret |-> r, over |-> FALSE]

boolector_assert(w, e, by) ==
    [w EXCEPT !.bzla.asserted = Append(@, [exp |-> e, by |-> by])]

\* the loop of declare_fun_smt2 over the sorts of the arguments
RECURSIVE ArgSorts(_, _, _, _)
ArgSorts(w, toks, i, sorts) ==
    IF i > Len(toks) THEN [w |-> w, ok |-> TRUE, sorts |-> sorts]
    ELSE With(parse_sort(w, toks[i], FALSE), LAMBDA rs :
            IF ~rs.ok THEN [w |-> rs.w, ok |-> FALSE, sorts |-> sorts]
            ELSE ArgSorts(rs.w, toks, i + 1, Append(sorts, rs.sort)))

SetExp(w, id, exp) ==
    [w EXCEPT !.parser.symbol =
        SetNode(@, id, LAMBDA n : [n EXCEPT !.exp = exp])]

\* declare_fun_smt2 after the sorts have been parsed: fun is the id of the
\* node of the symbol, name its name, as the sorts of the arguments
DeclareExp(w, fun, name, as, sort) ==
    IF as = <<>>
    THEN IF sort.array
         THEN SetExp([w EXCEPT !.parser.need_arrays = TRUE], fun,
                     MkExp("array", sort.width, TRUE, FALSE, name, <<>>))
         ELSE SetExp(w, fun,
                     MkExp("var", sort.width, FALSE, FALSE, name, <<>>))
    ELSE SetExp([w EXCEPT !.parser.need_functions = TRUE], fun,
                MkExp("uf", sort.width, FALSE, TRUE, name,
                      [i \in 1..Len(as) |->
                          MkExp("sort", as[i].width, FALSE, FALSE, <<>>,
                                <<>>)]))

\* declare_fun_smt2 from the sorts of the arguments on
DeclareSorts(w, fun, name, args, sort) ==
    With(ArgSorts(w, args, 1, <<>>), LAMBDA ra :
    IF ~ra.ok THEN Ret(ra.w, 0)
    ELSE
    With(parse_sort(ra.w, sort, TRUE), LAMBDA rs :
    IF ~rs.ok THEN Ret(rs.w, 0)
    ELSE IF args # <<>> /\ \E i \in 1..Len(ra.sorts) : ra.sorts[i].kind # "bv"
    THEN Ret(perr_smt2(rs.w, "only bit-vector sorts supported for arity > 0"),
             0)
    ELSE IF args # <<>> /\ rs.sort.kind # "bv"
    THEN Ret(perr_smt2(rs.w, "only bit-vector sorts supported as return sort for arity > 0"), 0)
    ELSE Ret(DeclareExp(rs.w, fun, name, ra.sorts, rs.sort), 1)))

\* declare_fun_smt2 without the test of fun->coo.x
declare_fun_smt2_unchecked(w, name, args, sort) ==
    With(read_token_aux_smt2(w, name), LAMBDA tk :
    IF tk.tag # "SYMBOL" THEN Ret(perr_smt2(tk.w, "expected symbol"), 0)
    ELSE DeclareSorts(
            [tk.w EXCEPT !.parser.symbol = SetCoo(@, tk.w.parser.last_node)],
            tk.w.parser.last_node, LastNode(tk.w).name, args, sort))

declare_fun_smt2(w, name, args, sort) ==
    With(read_token_aux_smt2(w, name), LAMBDA tk :
    IF tk.tag # "SYMBOL" THEN Ret(perr_smt2(tk.w, "expected symbol"), 0)
    ELSE IF LastNode(tk.w).coo # 0
    THEN Ret(perr_smt2(tk.w, "symbol already defined"), 0)
    ELSE DeclareSorts(
            [tk.w EXCEPT !.parser.symbol = SetCoo(@, tk.w.parser.last_node)],
            tk.w.parser.last_node, LastNode(tk.w).name, args, sort))

\* define_sort_smt2 for (define-sort name () sort)
define_sort_smt2(w, name, sort) ==
    With(read_token_aux_smt2(w, name), LAMBDA tk :
    IF tk.tag # "SYMBOL"
    THEN Ret(perr_smt2(tk.w, "expected symbol after 'define-sort'"), 0)
    ELSE IF LastNode(tk.w).coo # 0
    THEN Ret(perr_smt2(tk.w, "sort already defined"), 0)
    ELSE
    With(parse_sort(tk.w, sort, TRUE), LAMBDA rs :
    IF ~rs.ok THEN Ret(rs.w, 0)
    ELSE Ret([rs.w EXCEPT !.parser.symbol =
                 SetNode(@, tk.w.parser.last_node, LAMBDA n :
                    [n EXCEPT !.sort = 1, !.sort_alias = rs.sort])], 1)))

\* declare_sort_smt2 for (declare-sort name arity)
declare_sort_smt2(w, name, arity) ==
    IF w.bzla.opts.declsort_bv_width = 0
    THEN Ret(perr_smt2(w, "'declare-sort' not supported if it is not interpreted  as a bit-vector"), 0)
    ELSE
    With(read_token_aux_smt2(w, name), LAMBDA tk :
    IF tk.tag # "SYMBOL"
    THEN Ret(perr_smt2(tk.w, "expected symbol after 'declare-sort'"), 0)
    ELSE IF LastNode(tk.w).coo # 0
    THEN Ret(perr_smt2(tk.w, "sort already defined"), 0)
    ELSE
    With(parse_uint32_smt2(tk.w, TRUE, arity), LAMBDA r :
    IF r.num = <<-1, -1>> THEN Ret(r.w, 0)
    ELSE IF r.val # 0
    THEN Ret(perr_smt2(r.w, "sort arity other than 0 not supported"), 0)
    ELSE Ret([r.w EXCEPT !.parser.symbol =
                 SetNode(@, tk.w.parser.last_node, LAMBDA n :
                    [n EXCEPT !.sort = 1,
                              !.sort_alias =
                                 BVSort(w.bzla.opts.declsort_bv_width)])],
             1)))

\* boolector_param for the parameter with node id of the function fname,
\* and its item on the work stack
DefineParam(w, id, sort, fname) ==
    [w EXCEPT
       !.parser.work = Append(@, Item("SYMBOL", id, NoExp)),
       !.parser.symbol =
          SetNode(@, id, LAMBDA n : [n EXCEPT !.exp =
             MkExp("param", sort.width, FALSE, FALSE,
                   <<UNDERSCORE>> \o fname \o <<UNDERSCORE>> \o n.name,
                   <<>>)])]

\* the loop "parse function arguments" of define_fun_smt2, from the i-th
\* parameter on; ids are the nodes of the parameters before
RECURSIVE DefineArgs(_, _, _, _, _)
DefineArgs(w, fname, params, i, ids) ==
    IF i > Len(params) THEN [w |-> w, ok |-> TRUE, ids |-> ids]
    ELSE
    With(read_token_aux_smt2(w, params[i][1]), LAMBDA tk :
    IF tk.tag # "SYMBOL"
    THEN [w |-> perr_smt2(tk.w, "expected symbol after '('"),
          ok |-> FALSE, ids |-> ids]
    ELSE
    With(BindSymbol(tk.w), LAMBDA b :
    With(parse_sort(b.w, params[i][2], FALSE), LAMBDA rs :
    IF ~rs.ok THEN [w |-> rs.w, ok |-> FALSE, ids |-> ids]
    ELSE DefineArgs(DefineParam(rs.w, b.id, rs.sort, fname), fname, params,
                    i + 1, Append(ids, b.id)))))

\* the end of define_fun_smt2: the parameters are removed; tmp is the node
\* for the definition, fexp the node bound to the function symbol before
DefineEnd(w, fun, fexp, tmp, nargs, model, t, i) ==
    IF model /\ ~boolector_is_equal_sort(fexp, tmp)
    THEN Ret(perr_smt2(w, "model must have equal sort"), 0)
    ELSE
    With(ReadRpar(IF model
                  THEN boolector_assert(w,
                          MkExp("eq", 1, FALSE, FALSE, <<>>, <<fexp, tmp>>),
                          "model")
                  ELSE SetExp([w EXCEPT !.parser.need_functions =
                                           IF nargs # 0 THEN TRUE ELSE @],
                              fun, tmp),
                  t, i, "expected ')' to close definition"), LAMBDA rr :
    [Ret(rr.w, IF rr.ok THEN 1 ELSE 0) EXCEPT !.over = rr.over])

\* define_fun_smt2 from the term on; f is the node of the function symbol
DefineTerm(w, f, ids, sort, t, model) ==
    With(parse_term_smt2(w, t), LAMBDA rt :
    IF ~rt.ok THEN [Ret(rt.w, 0) EXCEPT !.over = rt.over]
    ELSE IF ~model /\ boolector_get_sort(rt.exp) # sort
    THEN Ret(perr_smt2(rt.w, "invalid term sort"), 0)
    ELSE DefineEnd([rt.w EXCEPT
                      !.parser.symbol = RemoveSyms(@, ids),
                      !.parser.work = Prefix(@, Len(@) - Len(ids))],
                   f.id, f.exp,
                   IF ids # <<>>
                   THEN MkExp("fun", rt.exp.width, FALSE, TRUE,
                              IF model THEN <<>> ELSE f.name,
                              Append(ParamExps(rt.w.parser.symbol, ids),
                                     rt.exp))
                   ELSE rt.exp,
                   Len(ids), model, t, rt.i))

\* define_fun_smt2 from "parse return sort" on; f is the node of the
\* function symbol, ids are the nodes of the parameters
DefineBody(w, f, ids, sort, t, model) ==
    With(parse_sort(w, sort, TRUE), LAMBDA rs :
    IF ~rs.ok THEN Ret(rs.w, 0)
    ELSE IF rs.sort.array /\ ids # <<>>
    THEN Ret(perr_smt2(rs.w, "sort Array is not supported for arity > 0"), 0)
    ELSE IF model /\ f.exp = NoExp THEN Ret(Abort(rs.w), 0)
    ELSE IF rs.sort.array /\ model /\ ~boolector_is_array(f.exp)
    THEN Ret(perr_smt2(rs.w, "sort Array expected"), 0)
    ELSE IF ~rs.sort.array /\ model
            /\ (IF boolector_is_fun(f.exp)
                THEN BVSort(f.exp.width) # rs.sort
                ELSE boolector_get_sort(f.exp) # rs.sort)
    THEN Ret(perr_smt2(rs.w, "invalid sort, expected"), 0)
    ELSE DefineTerm(IF rs.sort.array /\ ~model
                    THEN [rs.w EXCEPT !.parser.need_arrays = TRUE] ELSE rs.w,
                    f, ids, rs.sort, t, model))

define_fun_smt2(w, name, params, sort, t) ==
    With(read_token_aux_smt2(w, name), LAMBDA tk :
    With(LastNode(tk.w), LAMBDA f :
    IF tk.tag # "SYMBOL"
    THEN Ret(perr_smt2(tk.w, "expected symbol after 'define-fun'"), 0)
    ELSE IF f.coo # 0 /\ w.parser.commands.model = 0
    THEN Ret(perr_smt2(tk.w, "symbol already defined"), 0)
    ELSE IF f.coo = 0 /\ w.parser.commands.model # 0
    THEN Ret(perr_smt2(tk.w, "symbol undefined"), 0)
    ELSE
    With(DefineArgs([tk.w EXCEPT !.parser.symbol = SetCoo(@, f.id)], f.name,
                    params, 1, <<>>), LAMBDA ra :
    IF ~ra.ok THEN Ret(ra.w, 0)
    ELSE DefineBody(ra.w, [f EXCEPT !.coo = 1], ra.ids, sort, t,
                    w.parser.commands.model # 0))))

-----------------------------------------------------------------------------
(* set-info, set-option, check-sat and the command driver                  *)

\* set_info_smt2 for a keyword other than :status: skip_sexprs reads the
\* value, which the lexer enters into the symbol table when it is a symbol
set_info_smt2(w, keyword, value) ==
    Ret(read_token_aux_smt2(read_token_aux_smt2(w, keyword).w, value).w, 1)

set_option_smt2(w, keyword, val) ==
    CASE keyword = "print-success" ->
           Ret([w EXCEPT !.parser.print_success = val], 1)
      [] keyword = "global-declarations" ->
           Ret([w EXCEPT !.parser.global_declarations = val], 1)
      [] keyword = "produce-models" ->
           Ret([w EXCEPT !.bzla.opts.model_gen = val], 1)
      [] OTHER -> Ret(perr_smt2(w, "unsupported option"), 0)

\* check_sat without "parser->done = true"
check_sat_not_done(w, sat) ==
    IF w.bzla.opts.parse_interactive
    THEN [w EXCEPT !.parser.sat_assuming_assumptions = <<>>,
                   !.parser.commands.check_sat = @ + 1,
                   !.res.result = sat, !.res.nsatcalls = @ + 1,
                   !.outfile = Append(@, sat)]
    ELSE [w EXCEPT !.parser.sat_assuming_assumptions = <<>>,
                   !.parser.commands.check_sat = @ + 1]

\* sat is the answer of boolector_sat, used when the parser is interactive
check_sat(w, sat) ==
    IF w.bzla.opts.parse_interactive
    THEN [w EXCEPT !.parser.sat_assuming_assumptions = <<>>,
                   !.parser.commands.check_sat = @ + 1,
                   !.res.result = sat, !.res.nsatcalls = @ + 1,
                   !.outfile = Append(@, sat)]
    ELSE [w EXCEPT !.parser.sat_assuming_assumptions = <<>>,
                   !.parser.commands.check_sat = @ + 1,
                   !.parser.done = TRUE]

\* read_exp_list: a term, then terms until the token read is ")"
RECURSIVE read_exp_list(_, _, _, _)
read_exp_list(w, toks, i, exps) ==
    IF exps # <<>> /\ i > Len(toks)
    THEN [w |-> w, ok |-> FALSE, exps |-> <<>>, over |-> TRUE]
    ELSE IF exps # <<>> /\ toks[i].k = ")"
    THEN [w |-> w, ok |-> TRUE, exps |-> exps, over |-> i < Len(toks)]
    ELSE With(parse_term_aux_smt2(w, toks, i), LAMBDA rt :
            IF ~rt.ok
            THEN [w |-> rt.w, ok |-> FALSE, exps |-> <<>>, over |-> rt.over]
            ELSE read_exp_list(rt.w, toks, rt.i, Append(exps, rt.exp)))

\* the loop of check-sat-assuming over the parsed expressions
RECURSIVE AssumeAll(_, _, _)
AssumeAll(w, exps, i) ==
    IF i > Len(exps) THEN [w |-> w, ok |-> TRUE]
    ELSE IF boolector_is_array(exps[i])
    THEN [w |-> perr_smt2(w, "assumption argument is an array and not a formula"),
          ok |-> FALSE]
    ELSE AssumeAll([w EXCEPT !.bzla.assumed = Append(@, exps[i])], exps, i + 1)

RECURSIVE OpenScopes(_, _)
OpenScopes(p, n) == IF n = 0 THEN p ELSE OpenScopes(open_new_scope(p), n - 1)

RECURSIVE CloseScopes(_, _)
CloseScopes(p, n) ==
    IF n = 0 THEN p ELSE CloseScopes(close_current_scope(p), n - 1)

\* the result of read_command_smt2: exp and exps are its local variables,
\* entered says that the command is "model" and the loop over the commands
\* of the model block has been entered
Done(w, r) == [w |-> w, ret |-> r, exp |-> NoExp, exps |-> <<>>,
               entered |-> FALSE, over |-> FALSE]

\* "break" out of the switch
Break(w) == Done([w EXCEPT !.parser.commands.all = @ + 1], 1)

\* the end of a case that calls a command function
After(r) == IF r.over THEN [Done(r.w, 0) EXCEPT !.over = TRUE]
            ELSE IF r.ret = 0 THEN Done(r.w, 0)
            ELSE Break(print_success(r.w))

\* the case check-sat-assuming after read_exp_list
Assuming(rl, sat) ==
    IF ~rl.ok \/ rl.over THEN [Done(rl.w, 0) EXCEPT !.over = rl.over]
    ELSE With(AssumeAll(rl.w, rl.exps, 1), LAMBDA ra :
            IF ~ra.ok THEN [Done(ra.w, 0) EXCEPT !.exps = rl.exps]
            ELSE [Break([check_sat(ra.w, sat) EXCEPT
                           !.parser.sat_assuming_assumptions = rl.exps])
                  EXCEPT !.exps = rl.exps])

\* the case assert without the test of the width
Asserting_any_width(rt, toks) ==
    IF ~rt.ok THEN [Done(rt.w, 0) EXCEPT !.over = rt.over]
    ELSE IF boolector_is_array(rt.exp)
    THEN [Done(perr_smt2(rt.w,
                  "assert argument is an array and not a formula"), 0)
          EXCEPT !.exp = rt.exp]
    ELSE
    With(ReadRpar(rt.w, toks, rt.i, "expected ')' after asserted expression"),
         LAMBDA rr :
    IF ~rr.ok THEN [Done(rr.w, 0) EXCEPT !.exp = rt.exp, !.over = rr.over]
    ELSE [Break(print_success(
             [boolector_assert(rt.w, rt.exp, "assert") EXCEPT
                 !.parser.commands.asserts = @ + 1]))
          EXCEPT !.exp = rt.exp])

\* the case assert after parse_term_smt2
Asserting(rt, toks) ==
    IF ~rt.ok THEN [Done(rt.w, 0) EXCEPT !.over = rt.over]
    ELSE IF boolector_is_array(rt.exp)
    THEN [Done(perr_smt2(rt.w,
                  "assert argument is an array and not a formula"), 0)
          EXCEPT !.exp = rt.exp]
    ELSE
    With(ReadRpar(rt.w, toks, rt.i, "expected ')' after asserted expression"),
         LAMBDA rr :
    IF ~rr.ok THEN [Done(rr.w, 0) EXCEPT !.exp = rt.exp, !.over = rr.over]
    ELSE IF boolector_bv_get_width(rt.exp) # 1
    THEN [Done(perr_smt2(rt.w, "assert argument is a bit-vector of length"),
               0) EXCEPT !.exp = rt.exp]
    ELSE [Break(print_success(
             [boolector_assert(rt.w, rt.exp, "assert") EXCEPT
                 !.parser.commands.asserts = @ + 1]))
          EXCEPT !.exp = rt.exp])

\* the case push after parse_uint32_smt2, whose result r is not looked at
Pushing(w, level) ==
    Break(print_success([w EXCEPT !.parser = OpenScopes(@, level),
                                  !.bzla.level = @ + level]))

\* the case pop without the call of boolector_pop
Popping_parser_only(w, level) ==
    IF level > w.parser.scope_level
    THEN Done(perr_smt2(w, "popping more scopes than created via push"), 0)
    ELSE Break(print_success([w EXCEPT !.parser = CloseScopes(@, level)]))

\* the case pop after parse_uint32_smt2, whose result r is not looked at
Popping(w, level) ==
    IF level > w.parser.scope_level
    THEN Done(perr_smt2(w, "popping more scopes than created via push"), 0)
    ELSE Break(print_success([w EXCEPT !.parser = CloseScopes(@, level),
                                       !.bzla.level = @ - level]))

\* the case set-logic: the value of BzlaLogic stored for each logic tag
LogicOfTag ==
    [QF_BV |-> "QF_BV", QF_AUFBV |-> "QF_AUFBV", QF_UFBV |-> "QF_AUFBV",
     QF_ABV |-> "QF_AUFBV", ABV |-> "QF_ABV", BV |-> "BV",
     UFBV |-> "QF_UFBV", QF_FP |-> "QF_FP", QF_BVFP |-> "QF_FP",
     ALL |-> "ALL"]

\* the switch of read_command_smt2.  The local variable level is not
\* initialised: after parse_uint32_smt2 it holds the number parsed or, when
\* nothing was stored, the indeterminate value garbage
Command(w, cmd, c, garbage, sat) ==
    CASE c = "check-sat" -> Break(check_sat(w, sat))
      [] c = "check-sat-assuming" ->
           IF ~w.bzla.opts.incremental
           THEN Done(perr_smt2(w, "incremental solving is not enabled"), 0)
           ELSE Assuming(read_exp_list(w, cmd[2], 1, <<>>), sat)
      [] c = "declare-fun" ->
           After(declare_fun_smt2(w, cmd[2], cmd[3], cmd[4]))
      [] c = "declare-const" ->
           After(declare_fun_smt2(w, cmd[2], <<>>, cmd[3]))
      [] c = "define-fun" ->
           After(define_fun_smt2(w, cmd[2], cmd[3], cmd[4], cmd[5]))
      [] c = "declare-sort" -> After(declare_sort_smt2(w, cmd[2], cmd[3]))
      [] c = "define-sort" -> After(define_sort_smt2(w, cmd[2], cmd[3]))
      [] c = "assert" -> Asserting(parse_term_smt2(w, cmd[2]), cmd[2])
      [] c = "get-value" ->
           IF ~w.bzla.opts.model_gen
           THEN Done(perr_smt2(w, "model generation is not enabled"), 0)
           ELSE IF w.res.result # "sat"
           THEN Break([w EXCEPT !.parser.infile = cmd[2] \o <<RP>>])
           ELSE With(read_exp_list(w, cmd[2], 1, <<>>), LAMBDA rl :
                   IF ~rl.ok \/ rl.over
                   THEN [Done(rl.w, 0) EXCEPT !.over = rl.over]
                   ELSE [Break([rl.w EXCEPT !.outfile = Append(@, "values")])
                         EXCEPT !.exps = rl.exps])
      [] c = "exit" ->
           Break(print_success([w EXCEPT !.parser.commands.exits = @ + 1,
                                         !.parser.done = TRUE]))
      [] c = "model" ->
           IF w.parser.need_arrays
           THEN Done(perr_smt2(w,
                   "model parsing for arrays currently not supported"), 0)
           ELSE [Done([w EXCEPT !.parser.commands.model = 1], 1)
                 EXCEPT !.entered = TRUE]
      [] c = "set-logic" ->
           IF cmd[2][1] # "logic"
           THEN Done(perr_smt2(read_token_aux_smt2(w, cmd[2][2]).w,
                               "expected logic at"), 0)
           ELSE Break(print_success(
                   [w EXCEPT !.res.logic = LogicOfTag[cmd[2][2]],
                             !.parser.commands.set_logic = @ + 1]))
      [] c = "set-info" -> After(set_info_smt2(w, cmd[2], cmd[3]))
      [] c = "set-option" -> After(set_option_smt2(w, cmd[2], cmd[3]))
      [] c = "push" ->
           With(parse_uint32_smt2(w, TRUE, cmd[2]), LAMBDA r :
                Pushing(r.w, IF r.num = <<-1, -1>> THEN garbage ELSE r.val))
      [] c = "pop" ->
           With(parse_uint32_smt2(w, TRUE, cmd[2]), LAMBDA r :
                Popping(r.w, IF r.num = <<-1, -1>> THEN garbage ELSE r.val))
      [] OTHER -> Done(perr_smt2(w, "unsupported command"), 0)

\* read_command_smt2 without the test "expected 'define-fun' after 'model'"
read_command_smt2_any_command(w, cmd, garbage, sat) ==
    IF w.parser.infile # <<>>
    THEN With(read_token_smt2(w, Head(w.parser.infile)), LAMBDA tk :
         IF w.parser.commands.model # 0 /\ tk.tag = "RPAR"
         THEN Done([tk.w EXCEPT !.parser.commands.model = 0,
                                !.parser.infile = Tail(@)], 0)
         ELSE Done(perr_smt2([tk.w EXCEPT !.parser.infile = Tail(@)],
                             IF tk.tag = "RPAR" THEN "expected '(' at ')'"
                             ELSE "expected '(' at a term"), 0))
    ELSE IF w.parser.commands.model # 0 /\ cmd[1] = ")"
    THEN Done([w EXCEPT !.parser.commands.model = 0], 0)
    ELSE IF w.parser.commands.model # 0 /\ cmd[1] = "eof"
    THEN Done(perr_smt2(w, "expected ')' after 'model' at end-of-file"), 0)
    ELSE IF cmd[1] = "eof" THEN Done(w, 0)
    ELSE IF cmd[1] = ")" THEN Done(perr_smt2(w, "expected '(' at ')'"), 0)
    ELSE Command(w, cmd, cmd[1], garbage, sat)

\* When the command before has left tokens unread in parser.infile, the
\* first of them is the token read; it is not "(".
read_command_smt2(w, cmd, garbage, sat) ==
    IF w.parser.infile # <<>>
    THEN With(read_token_smt2(w, Head(w.parser.infile)), LAMBDA tk :
         IF w.parser.commands.model # 0 /\ tk.tag = "RPAR"
         THEN Done([tk.w EXCEPT !.parser.commands.model = 0,
                                !.parser.infile = Tail(@)], 0)
         ELSE Done(perr_smt2([tk.w EXCEPT !.parser.infile = Tail(@)],
                             IF tk.tag = "RPAR" THEN "expected '(' at ')'"
                             ELSE "expected '(' at a term"), 0))
    ELSE IF w.parser.commands.model # 0 /\ cmd[1] = ")"
    THEN Done([w EXCEPT !.parser.commands.model = 0], 0)
    ELSE IF w.parser.commands.model # 0 /\ cmd[1] = "eof"
    THEN Done(perr_smt2(w, "expected ')' after 'model' at end-of-file"), 0)
    ELSE IF cmd[1] = "eof" THEN Done(w, 0)
    ELSE IF cmd[1] = ")" THEN Done(perr_smt2(w, "expected '(' at ')'"), 0)
    ELSE IF w.parser.commands.model # 0 /\ cmd[1] # "define-fun"
    THEN Done(perr_smt2(w, "expected 'define-fun' after 'model'"), 0)
    ELSE Command(w, cmd, cmd[1], garbage, sat)

-----------------------------------------------------------------------------
(* Inputs                                                                  *)

\* (_ BitVec 1), (Array (_ BitVec 1) (_ BitVec 1))
Sorts == <<SortTok(BVSort(1)), SortTok(ArraySort)>>

\* x, y, #b0, #b00, (let ((x #b0)) x), (forall ((x (_ BitVec 1))) x),
\* (! #b0 :named y), (not x), (let ((x #b0)) y)
Terms == <<
    <<Sym(x)>>,
    <<Sym(y)>>,
    <<Bin(1)>>,
    <<Bin(2)>>,
    <<LP, Sym(kw.let), LP, LP, Sym(x), Bin(1), RP, RP, Sym(x), RP>>,
    <<LP, Sym(kw.forall), LP, LP, Sym(x), SortTok(BVSort(1)), RP, RP,
      Sym(x), RP>>,
    <<LP, Sym(kw.bang), Bin(1), Sym(kw.named), Sym(y), RP>>,
    <<LP, Sym(kw.not), Sym(x), RP>>,
    <<LP, Sym(kw.let), LP, LP, Sym(x), Bin(1), RP, RP, Sym(y), RP>>
>>

\* (x), (#b0 y), (#b00), ()
TermLists == <<
    <<Sym(x), RP>>,
    <<Bin(1), Sym(y), RP>>,
    <<Bin(2), RP>>,
    <<RP>>
>>

\* (define-fun y () (_ BitVec 1) #b0), (define-fun y ((x (_ BitVec 1)))
\* (_ BitVec 1) x), (define-fun x () (_ BitVec 1) #b0),
\* (define-fun y () (_ BitVec 1) (not))
Defines == <<
    <<"define-fun", y, <<>>, Sorts[1], <<Bin(1)>> >>,
    <<"define-fun", y, << <<x, Sorts[1]>> >>, Sorts[1], <<Sym(x)>> >>,
    <<"define-fun", x, <<>>, Sorts[1], <<Bin(1)>> >>,
    <<"define-fun", y, <<>>, Sorts[1], <<LP, Sym(kw.not), RP>> >>
>>

\* the argument of push and pop: 1, 2, a numeral above 2^32 - 1, and a
\* symbol
LevelTokens == <<
    <<"decimal", <<49>> >>,
    <<"decimal", <<50>> >>,
    <<"decimal", <<57, 57, 57, 57, 57, 57, 57, 57, 57, 57, 57>> >>,
    <<"symbol", y>>
>>

\* the tokens for which parse_uint32_smt2 stores a value: the numerals of
\* one digit, and the number that such a token writes
ValidLevel(t) == LevelTokens[t][1] = "decimal" /\ Len(LevelTokens[t][2]) = 1

NumberOf(t) == LevelTokens[t][2][1] - ZERO_CHAR

\* values an uninitialised uint32_t is given here; it is read only when
\* parse_uint32_smt2 has stored nothing
Garbage(t) == IF ValidLevel(t) THEN {0} ELSE 0..MaxGarbage

SatResults == {"sat", "unsat"}

\* the argument of set-logic: QF_BV, QF_UFBV, BV, ALL, and a symbol
LogicTokens == <<
    <<"logic", "QF_BV">>,
    <<"logic", "QF_UFBV">>,
    <<"logic", "BV">>,
    <<"logic", "ALL">>,
    <<"symbol", x>>
>>

\* the operators of the bit-vector theory that are reduced by
\* close_term_bin_bv_left_associative, then "=", distinct, select and store,
\* each with its tag
Ops == <<
    <<kw.concat, "BV_CONCAT">>, <<kw.bvand, "BV_AND">>,
    <<kw.bvor, "BV_OR">>, <<kw.bvxor, "BV_XOR">>,
    <<kw.bvxnor, "BV_XNOR">>, <<kw.bvadd, "BV_ADD">>,
    <<kw.bvsub, "BV_SUB">>, <<kw.bvmul, "BV_MUL">>,
    <<kw.eq, "EQUAL">>, <<kw.distinct, "DISTINCT">>,
    <<kw.select, "ARRAY_SELECT">>, <<kw.store, "ARRAY_STORE">>
>>

\* the operators with an index and the rotations by a constant, each with
\* its tag
IndexedOps == <<
    <<kw.zero_extend, "BV_ZERO_EXTEND">>,
    <<kw.sign_extend, "BV_SIGN_EXTEND">>,
    <<kw.ext_rotate_left, "BV_EXT_ROTATE_LEFT">>,
    <<kw.ext_rotate_right, "BV_EXT_ROTATE_RIGHT">>
>>

\* the rounding mode RNE and the operators of the floating-point theory
\* that are reduced by close_term_bin_rm_fp_fun, each with its tag
FpOps == <<
    <<kw.RNE, "FP_ROUNDINGMODE_RNE">>,
    <<kw.fp_add, "FP_ADD">>, <<kw.fp_sub, "FP_SUB">>,
    <<kw.fp_mul, "FP_MUL">>, <<kw.fp_div, "FP_DIV">>
>>

\* the indices written after zero_extend and sign_extend: 0, 1,
\* 2147483645, 2147483646, 2147483647, 2147483648, 4294967295, 4294967296
Indices == <<
    <<48>>, <<49>>,
    <<50, 49, 52, 55, 52, 56, 51, 54, 52, 53>>,
    <<50, 49, 52, 55, 52, 56, 51, 54, 52, 54>>,
    <<50, 49, 52, 55, 52, 56, 51, 54, 52, 55>>,
    <<50, 49, 52, 55, 52, 56, 51, 54, 52, 56>>,
    <<52, 50, 57, 52, 57, 54, 55, 50, 57, 53>>,
    <<52, 50, 57, 52, 57, 54, 55, 50, 57, 54>>
>>

\* the arguments of the rotations: x, #b00, #b01, #b10, #b11
RotateArgs == <<Sym(x), Bin(2), Bits(<<48, 49>>), Bits(<<49, 48>>),
                Bits(<<49, 49>>)>>

\* the values of the enumeration BzlaLogic
Logics == {"BV", "QF_ABV", "QF_AUFBV", "QF_BV", "QF_FP", "QF_UFBV", "ALL"}

-----------------------------------------------------------------------------
(* Initial state: new_smt2_parser, then the entry of parse_smt2_parser     *)

\* the macro INSERT for the i-th and the later elements of list
RECURSIVE INSERT(_, _, _)
INSERT(symbol, list, i) ==
    IF i > Len(list) THEN symbol
    ELSE INSERT(insert_symbol_smt2(symbol,
                   new_node_smt2(symbol, 0, list[i][2], list[i][1])),
                list, i + 1)

InitSymbol ==
    INSERT([table |-> <<>>, count |-> 0],
           << <<kw.named, "NAMED">>, <<kw.notes, "NOTES">>,
              <<kw.bang, "BANG">>, <<kw.forall, "FORALL">>,
              <<kw.let, "LET">>, <<kw.not, "NOT">> >>, 1)

\* the names of the program and what is recorded for each: whether it is
\* defined, and the backend node bound to it
View(symbol) ==
    [i \in 1..Len(Names) |->
        With(find_symbol_smt2(symbol, Names[i]), LAMBDA n :
             [defined |-> n.coo # 0, exp |-> n.exp])]

InitParser ==
    [symbol |-> InitSymbol, scope_level |-> 0, error |-> NULL,
     print_success |-> FALSE, global_declarations |-> FALSE,
     done |-> FALSE, need_arrays |-> FALSE,
     need_functions |-> FALSE, need_quantifiers |-> FALSE,
     bound_vars |-> 0, last_node |-> 0,
     open |-> 0, isvarbinding |-> FALSE, sorted_var |-> FALSE,
     expecting_body |-> "", work |-> <<>>,
     commands |-> [all |-> 0, asserts |-> 0, check_sat |-> 0,
                   exits |-> 0, model |-> 0, set_logic |-> 0],
     sat_assuming_assumptions |-> <<>>, infile |-> <<>>]

\* the parser with the symbol table symbol, and the backend with the
\* options incremental = inc,
\* parse_interactive = inter and model_gen = gen; BZLA_CLR(res) gives
\* res->logic the enumerator of BzlaLogic whose value is 0, here zero;
\* width is the option declsort-bv-width
InitOpts(symbol, inc, inter, gen, zero, width) ==
    /\ parser = [InitParser EXCEPT !.symbol = symbol]
    /\ bzla = [level |-> 0, asserted |-> <<>>, assumed |-> <<>>,
               aborted |-> FALSE, terminate |-> FALSE,
               opts |-> [incremental |-> inc, parse_interactive |-> inter,
                         model_gen |-> gen, declsort_bv_width |-> width]]
    /\ outfile = <<>>
    /\ res = [result |-> "unknown", nsatcalls |-> 0, logic |-> zero]
    /\ pc = "parse"
    /\ result = NULL
    /\ last = [cmd |-> "", arg |-> 0, ret |-> 1, exp |-> NoExp,
               exps |-> <<>>]
    /\ perr = [first |-> NULL, last |-> NULL]
    /\ opened = <<>>

\* the same with the option declsort-bv-width at 0
InitWith(symbol, inc, inter, gen, zero) ==
    InitOpts(symbol, inc, inter, gen, zero, 0)

Init == \E inc \in BOOLEAN, inter \in BOOLEAN :
    InitWith(InitSymbol, inc, inter, FALSE, "BV")

-----------------------------------------------------------------------------
(* One pass of the loop of parse_smt2_parser, or of the loop of the model  *)
(* block inside read_command_smt2                                          *)

\* the history of the open scope levels after a command that changed the
\* scope level from old to new
History(old, new, gd) ==
    With(IF new > old
         THEN opened \o [i \in 1..(new - old) |->
                            [base |-> old, n |-> new - old,
                             view |-> View(parser.symbol), gd |-> FALSE]]
         ELSE SubSeq(opened, 1, new),
         LAMBDA hist : [i \in 1..Len(hist) |->
                           [hist[i] EXCEPT !.gd = @ \/ gd]])

\* the end of parse_smt2_parser, "determine logic to use": the logic of the
\* result for the parser p when res->logic is logic
DetermineLogic(p, logic) ==
    IF p.need_functions /\ p.need_arrays /\ logic = "QF_BV" THEN "QF_AUFBV"
    ELSE IF p.need_functions /\ logic = "QF_BV" THEN "QF_UFBV"
    ELSE IF logic = "ALL"
    THEN IF ~p.need_quantifiers
         THEN IF p.need_functions \/ p.need_arrays THEN "QF_AUFBV"
              ELSE "QF_BV"
         ELSE "BV"
    ELSE IF /\ p.commands.set_logic # 0
            /\ ~p.need_functions /\ ~p.need_arrays /\ ~p.need_quantifiers
            /\ logic = "QF_AUFBV"
    THEN "QF_BV"
    ELSE logic

\* r is the result of read_command_smt2, p1 the parser after the pass, npc
\* the place where the program continues
Pass(r, p1, npc, cmd, arg) ==
    /\ ~r.over
    /\ p1.scope_level <= MaxScope
    /\ Len(r.w.outfile) <= MaxOut
    /\ Len(r.w.bzla.asserted) + Len(r.w.bzla.assumed) <= MaxSent
    /\ p1.bound_vars <= MaxBound
    /\ parser' = p1
    /\ bzla' = r.w.bzla
    /\ outfile' = r.w.outfile
    /\ res' = IF npc = "done" /\ p1.error = NULL
              THEN [r.w.res EXCEPT !.logic = DetermineLogic(p1, @)]
              ELSE r.w.res
    /\ perr' = r.w.perr
    /\ pc' = npc
    /\ result' = IF npc = "done" THEN p1.error ELSE NULL
    /\ last' = [cmd |-> cmd[1], arg |-> arg, ret |-> r.ret,
                exp |-> r.exp, exps |-> r.exps]
    /\ opened' = History(parser.scope_level, p1.scope_level,
                         p1.global_declarations)

\* the loop without the call of boolector_terminate in the main loop
Loop_no_poll(r, leave, cmd, arg) ==
    Pass(r,
         IF leave THEN [r.w.parser EXCEPT !.commands.all = @ + 1]
         ELSE r.w.parser,
         IF r.w.bzla.aborted THEN "abort"
         ELSE IF r.entered THEN "model"
         ELSE IF pc = "model" /\ ~leave THEN "model"
         ELSE IF (r.ret # 0 \/ leave) /\ ~r.w.parser.done THEN "parse"
         ELSE "done",
         cmd, arg)

\* leave: the model block is left, the case BZLA_MODEL_TAG_SMT2 breaks
Loop(r, leave, cmd, arg) ==
    Pass(r,
         IF leave THEN [r.w.parser EXCEPT !.commands.all = @ + 1]
         ELSE r.w.parser,
         IF r.w.bzla.aborted THEN "abort"
         ELSE IF r.entered THEN "model"
         ELSE IF pc = "model" /\ ~leave THEN "model"
         ELSE IF (r.ret # 0 \/ leave) /\ ~r.w.parser.done
                 /\ ~r.w.bzla.terminate THEN "parse"
         ELSE "done",
         cmd, arg)

Step(cmd, arg, garbage, sat) ==
    /\ pc \in {"parse", "model"}
    /\ parser.commands.all < MaxCmds
    /\ With(read_command_smt2([parser |-> parser, bzla |-> bzla,
                               outfile |-> outfile, res |-> res,
                               perr |-> perr], cmd, garbage, sat),
            LAMBDA r :
            Loop(r, /\ pc = "model"
                    /\ r.ret = 0 \/ r.w.bzla.terminate
                    /\ ~r.w.bzla.aborted, cmd, arg))

SetInfo == \E v \in 1..Len(Names) :
    Step(<<"set-info", kw.notes, Names[v]>>, v, 0, "unknown")

SetOption == \E k \in {"print-success", "global-declarations"}, b \in BOOLEAN :
    Step(<<"set-option", k, b>>, 0, 0, "unknown")

DeclareConst == \E n \in 1..Len(Names), s \in 1..Len(Sorts) :
    Step(<<"declare-const", Names[n], Sorts[s]>>, n, 0, "unknown")

\* (declare-const |x| ...), (declare-const |y| ...), (declare-const |z| ...),
\* (declare-const |not| ...)
DeclareQuoted == \E n \in 1..Len(Quoted), s \in 1..Len(Sorts) :
    Step(<<"declare-const", Quoted[n], Sorts[s]>>, n, 0, "unknown")

DeclareFun == \E n \in 1..Len(Names) :
    Step(<<"declare-fun", Names[n], <<Sorts[1]>>, Sorts[1]>>, n, 0,
         "unknown")

DefineFun == \E d \in 1..Len(Defines) : Step(Defines[d], d, 0, "unknown")

assert_command == \E t \in 1..Len(Terms) :
    Step(<<"assert", Terms[t]>>, t, 0, "unknown")

CheckSat == \E sat \in SatResults : Step(<<"check-sat">>, 0, 0, sat)

CheckSatAssuming == \E l \in 1..Len(TermLists), sat \in SatResults :
    Step(<<"check-sat-assuming", TermLists[l]>>, l, 0, sat)

Push == \E t \in 1..Len(LevelTokens) : \E g \in Garbage(t) :
    Step(<<"push", LevelTokens[t]>>, t, g, "unknown")

Pop == \E t \in 1..Len(LevelTokens) : \E g \in Garbage(t) :
    Step(<<"pop", LevelTokens[t]>>, t, g, "unknown")

GetValue == \E l \in 1..Len(TermLists) :
    Step(<<"get-value", TermLists[l]>>, l, 0, "unknown")

ProduceModels == \E b \in BOOLEAN :
    Step(<<"set-option", "produce-models", b>>, 0, 0, "unknown")

SetLogic == \E t \in 1..Len(LogicTokens) :
    Step(<<"set-logic", LogicTokens[t]>>, t, 0, "unknown")

\* boolector_terminate starts to answer true
Terminate ==
    /\ pc \in {"parse", "model"}
    /\ ~bzla.terminate
    /\ bzla' = [bzla EXCEPT !.terminate = TRUE]
    /\ UNCHANGED <<parser, outfile, res, pc, result, last, perr, opened>>

\* (assert (op arg ...)) with up to MaxArgs arguments, each x, y or #b00
\* (assert ((_ zero_extend k) t)) and (assert ((_ sign_extend k) t)) with
\* t one of x, #b00
AssertExtend == \E o \in 1..2, k \in 1..Len(Indices), t \in {Sym(x), Bin(2)} :
    Step(<<"assert", <<LP, LP, Sym(<<UNDERSCORE>>), Sym(IndexedOps[o][1]),
                       Dec(Indices[k]), RP, t, RP>> >>,
         [tag |-> IndexedOps[o][2], index |-> Indices[k], args |-> <<t>>],
         0, "unknown")

\* (assert (ext_rotate_left t c)) and (assert (ext_rotate_right t c))
AssertRotate == \E o \in 3..4, t, c \in 1..Len(RotateArgs) :
    Step(<<"assert", <<LP, Sym(IndexedOps[o][1]), RotateArgs[t],
                       RotateArgs[c], RP>> >>,
         [tag |-> IndexedOps[o][2], index |-> <<>>,
          args |-> <<RotateArgs[t], RotateArgs[c]>>],
         0, "unknown")

\* (assert (_ bvK n)) for K in 0..MaxConst, also written with a leading
\* zero, and n in 0..MaxWidth
AssertBvConst == \E K \in 0..MaxConst, z \in BOOLEAN, n \in 0..MaxWidth :
    Step(<<"assert", <<LP, Sym(<<UNDERSCORE>>),
                       Sym(<<98, 118>> \o (IF z THEN <<ZERO_CHAR>> ELSE <<>>)
                           \o Itoa(K)),
                       Dec(Itoa(n)), RP>> >>,
         [tag |-> "BVCONST", index |-> <<K, n>>, args |-> <<>>],
         0, "unknown")

AssertOp == \E o \in 1..Len(Ops), n \in 0..MaxArgs :
            \E a \in [1..n -> {Sym(x), Sym(y), Bin(2)}] :
    Step(<<"assert", <<LP, Sym(Ops[o][1])>> \o a \o <<RP>> >>,
         [tag |-> Ops[o][2], args |-> a], 0, "unknown")

\* (assert (fp.add a1 ... an)) and the same for fp.sub, fp.mul and fp.div,
\* with arguments among RNE, x, y and #b00
AssertFp == \E o \in 2..Len(FpOps), n \in 0..MaxFpArgs :
            \E a \in [1..n -> {Sym(kw.RNE), Sym(x), Sym(y), Bin(2)}] :
    Step(<<"assert", <<LP, Sym(FpOps[o][1])>> \o a \o <<RP>> >>,
         [fp |-> FpOps[o][2], args |-> a], 0, "unknown")

Model == Step(<<"model">>, 0, 0, "unknown")

CloseParen == Step(<<")">>, 0, 0, "unknown")

Exit == Step(<<"exit">>, 0, 0, "unknown")

EndOfFile == Step(<<"eof">>, 0, 0, "unknown")

Next ==
    \/ SetInfo
    \/ SetOption
    \/ DeclareConst
    \/ DeclareFun
    \/ DefineFun
    \/ assert_command
    \/ CheckSat
    \/ CheckSatAssuming
    \/ Push
    \/ Pop
    \/ Model
    \/ CloseParen
    \/ Exit
    \/ EndOfFile
    \/ GetValue
    \/ ProduceModels
    \/ SetLogic
    \/ Terminate
    \/ DeclareQuoted
    \/ AssertOp

Spec == Init /\ [][Next]_vars

\* Scopes: the commands that act on the scope level and the symbol table,
\* with the options of the backend at their defaults
NextScope ==
    \/ SetInfo
    \/ SetOption
    \/ DeclareConst
    \/ Push
    \/ Pop
    \/ Exit
    \/ EndOfFile

SpecScope ==
    /\ InitWith(InitSymbol, FALSE, FALSE, FALSE, "BV")
    /\ [][NextScope]_vars

\* Symbols: names are entered into the symbol table in unquoted form by
\* the lexer and in quoted form by declarations, and removed by pop
NextSymbol ==
    \/ SetInfo
    \/ DeclareQuoted
    \/ Push
    \/ Pop

SpecSymbol ==
    /\ InitWith(InitSymbol, FALSE, FALSE, FALSE, "BV")
    /\ [][NextSymbol]_vars

\* Terms: the commands that declare, define and use symbols, at most
\* MaxTermCmds of them
NextTerm ==
    /\ parser.commands.all < MaxTermCmds
    /\ \/ DeclareConst
       \/ DeclareFun
       \/ DefineFun
       \/ assert_command
       \/ CheckSat
       \/ CheckSatAssuming
       \/ Model
       \/ CloseParen

SpecTerm == Init /\ [][NextTerm]_vars

\* Driver: an interactive run with check-sat, get-value, a model block and
\* the termination flag
NextDriver ==
    \/ /\ parser.commands.all < MaxTermCmds
       /\ \/ ProduceModels
          \/ DeclareConst
          \/ DefineFun
          \/ assert_command
          \/ CheckSat
          \/ GetValue
          \/ Model
          \/ CloseParen
          \/ Exit
          \/ EndOfFile
    \/ Terminate

SpecDriver ==
    /\ \E gen \in BOOLEAN : InitWith(InitSymbol, FALSE, TRUE, gen, "BV")
    /\ [][NextDriver]_vars

\* Logic: scripts without set-option that declare, assert and set the
\* logic; the enumerator of BzlaLogic with the value 0 is not fixed
NextLogic ==
    /\ parser.commands.all < MaxTermCmds
    /\ \/ SetLogic
       \/ DeclareConst
       \/ DeclareFun
       \/ assert_command
       \/ Exit
       \/ EndOfFile

SpecLogic ==
    /\ \E zero \in Logics : InitWith(InitSymbol, FALSE, FALSE, FALSE, zero)
    /\ [][NextLogic]_vars

\* Operators: scripts that declare x and y as bit-vectors, arrays or
\* functions and then assert the application of an operator to them, up to
\* the first assertion that succeeds; the symbol table holds the operators
NextOps ==
    /\ parser.commands.all < MaxTermCmds
    /\ bzla.asserted = <<>>
    /\ \/ DeclareConst
       \/ DeclareFun
       \/ AssertOp

SpecOps ==
    /\ InitWith(INSERT(InitSymbol, Ops, 1), FALSE, FALSE, FALSE, "BV")
    /\ [][NextOps]_vars

\* Floating point: scripts that declare x and y as bit-vectors or arrays
\* and then assert the application of fp.add, fp.sub, fp.mul or fp.div, up
\* to the first assertion that succeeds; the symbol table holds RNE and the
\* four operators
NextFp ==
    /\ parser.commands.all < MaxTermCmds
    /\ bzla.asserted = <<>>
    /\ \/ DeclareConst
       \/ AssertFp

SpecFp ==
    /\ InitWith(INSERT(InitSymbol, FpOps, 1), FALSE, FALSE, FALSE, "BV")
    /\ [][NextFp]_vars

\* Lexer: the input is a text of up to MaxText characters '0', '1' and '.'
\* that starts with a digit.  The lexer reads a numeral from it and leaves
\* the characters after the numeral in parser.infile, as one token of kind
\* "text", from which it reads on until an error or a character that starts
\* no numeral.
ReadNumeral == \E n \in 1..MaxText :
    \E str \in [1..n -> {ZERO_CHAR, ZERO_CHAR + 1, DOT}] :
    /\ pc = "parse"
    /\ IsDigit(str[1])
    /\ IF parser.infile = <<>> THEN last.cmd = ""
       ELSE str = Head(parser.infile).name
    /\ With(NumeralToken(str), LAMBDA t :
         With(IF t.tag = "INVALID"
              THEN perr_smt2([parser |-> parser, bzla |-> bzla,
                              outfile |-> outfile, res |-> res,
                              perr |-> perr], t.msg)
              ELSE [parser |-> parser, perr |-> perr], LAMBDA w :
            /\ parser' = [w.parser EXCEPT
                             !.infile = <<Tok("text", t.rest, 0, NoSort)>>]
            /\ perr' = w.perr
            /\ pc' = IF t.tag = "INVALID" THEN "done" ELSE pc
            /\ last' = [last EXCEPT
                           !.cmd = "read_token",
                           !.arg = str,
                           !.ret = IF t.tag = "INVALID" THEN 0 ELSE 1,
                           !.exp = MkExp(t.tag, 0, FALSE, FALSE, t.token,
                                         <<>>)]))
    /\ UNCHANGED <<bzla, outfile, res, result, opened>>

NextLexer ==
    \/ ReadNumeral

SpecLexer ==
    /\ InitWith(InitSymbol, FALSE, FALSE, FALSE, "BV")
    /\ [][NextLexer]_vars

\* Positions: the file is a text of up to MaxFile characters '\n', ' ',
\* '(', ';', 'x' and '|', chosen when the first token is read; the tokens
\* are read one after the other up to the end of the file or an error.
\* last.arg holds the text and the index in it of the first character of
\* the token.
FileChars == {NEWLINE, 32, LPAR_CHAR, SEMICOLON, 120, BAR}

\* parse_smt2_parser, the fields of the parser that it sets for the lexer
\* before the first token is read, and those that new_smt2_parser clears;
\* str are the characters of the file
OpenFile(p, str) ==
    [coo |-> <<0, 0>>, nextcoo |-> <<1, 1>>, last_end_of_line_ycoo |-> 0,
     saved |-> FALSE, savedch |-> 0]
    @@ [p EXCEPT !.infile = <<Tok("text", str, 0, NoSort)>>]

ReadToken == \E n \in 0..MaxFile : \E str \in [1..n -> FileChars] :
    /\ pc = "parse"
    /\ IF last.cmd = "" THEN parser.infile = <<>> ELSE last.arg.text = str
    /\ With(ReadChars(
               [parser |-> IF last.cmd = "" THEN OpenFile(parser, str)
                           ELSE parser,
                bzla |-> bzla, outfile |-> outfile, res |-> res,
                perr |-> perr]), LAMBDA t :
            /\ parser' = t.w.parser
            /\ perr' = t.w.perr
            /\ pc' = IF t.tag \in {"EOF", "INVALID"} THEN "done" ELSE pc
            /\ last' = [last EXCEPT
                           !.cmd = "read_token",
                           !.arg = [text |-> str, start |-> Len(str) - t.left],
                           !.ret = IF t.tag = "INVALID" THEN 0 ELSE 1,
                           !.exp = MkExp(t.tag, 0, FALSE, FALSE, <<>>,
                                         <<>>)])
    /\ UNCHANGED <<bzla, outfile, res, result, opened>>

NextFile ==
    \/ ReadToken

SpecFile ==
    /\ InitWith(InitSymbol, FALSE, FALSE, FALSE, "BV")
    /\ [][NextFile]_vars

\* (let ((x x)) x), (let ((x #b0) (y x)) y), (let ((y x)) y),
\* (let ((x #b0)) x)
LetTerms == <<
    <<LP, Sym(kw.let), LP, LP, Sym(x), Sym(x), RP, RP, Sym(x), RP>>,
    <<LP, Sym(kw.let), LP, LP, Sym(x), Bin(1), RP, LP, Sym(y), Sym(x), RP,
      RP, Sym(y), RP>>,
    <<LP, Sym(kw.let), LP, LP, Sym(y), Sym(x), RP, RP, Sym(y), RP>>,
    <<LP, Sym(kw.let), LP, LP, Sym(x), Bin(1), RP, RP, Sym(x), RP>>
>>

AssertLet == \E t \in 1..Len(LetTerms) :
    Step(<<"assert", LetTerms[t]>>, [let |-> t], 0, "unknown")

\* Let: scripts that declare x and y and assert let terms whose bound
\* terms mention x
NextLet ==
    /\ parser.commands.all < MaxTermCmds
    /\ \/ DeclareConst
       \/ AssertLet

SpecLet ==
    /\ InitWith(InitSymbol, FALSE, FALSE, FALSE, "BV")
    /\ [][NextLet]_vars

\* (define-sort name () sort)
DefineSort == \E n \in 1..Len(Names), s \in 1..Len(Sorts) :
    Step(<<"define-sort", Names[n], Sorts[s]>>,
         [name |-> Names[n], sort |-> Sorts[s].sort], 0, "unknown")

\* (declare-sort name 0) and (declare-sort name 1)
DeclareSort == \E n \in 1..Len(Names), a \in 0..1 :
    Step(<<"declare-sort", Names[n], <<"decimal", <<ZERO_CHAR + a>> >> >>,
         [name |-> Names[n], arity |-> a], 0, "unknown")

\* (declare-const name s) with the sort given by the name s
DeclareOfSort == \E n, s \in 1..Len(Names) :
    Step(<<"declare-const", Names[n], Sym(Names[s])>>,
         [name |-> Names[n], sort |-> Names[s]], 0, "unknown")

\* Sorts: scripts that define and declare sorts and declare constants of
\* them, with the option declsort-bv-width at 0 or at 2
NextSort ==
    /\ parser.commands.all < MaxTermCmds
    /\ \/ DefineSort
       \/ DeclareSort
       \/ DeclareConst
       \/ DeclareOfSort

SpecSort ==
    /\ \E width \in {0, 2} :
          InitOpts(InitSymbol, FALSE, FALSE, FALSE, "BV", width)
    /\ [][NextSort]_vars

\* Indexed terms: scripts that declare x and y and then assert an
\* extension, a rotation by a constant or a constant (_ bvK n), up to the
\* first assertion that succeeds
NextIndexed ==
    /\ parser.commands.all < MaxTermCmds
    /\ bzla.asserted = <<>>
    /\ \/ DeclareConst
       \/ AssertExtend
       \/ AssertRotate
       \/ AssertBvConst

SpecIndexed ==
    /\ InitWith(INSERT(InitSymbol, IndexedOps, 1), FALSE, FALSE, FALSE, "BV")
    /\ [][NextIndexed]_vars

\* Table: the symbol table as a data structure, filled from empty with up
\* to MaxTable entries named x, y, |x|, |y|, |z| and |not|; any entry may be
\* removed
TableInsert == \E n \in 1..Len(Names \o Quoted) :
    /\ parser.symbol.count < MaxTable
    /\ parser' = [parser EXCEPT !.symbol =
                     insert_symbol_smt2(@,
                        new_node_smt2(@, parser.scope_level, "SYMBOL",
                                      (Names \o Quoted)[n]))]
    /\ last' = [last EXCEPT !.cmd = "insert",
                            !.arg = FreshId(parser.symbol)]
    /\ UNCHANGED <<bzla, outfile, res, pc, result, perr, opened>>

TableRemove == \E k \in 1..MaxTable :
    /\ k <= Len(AllNodes(parser.symbol))
    /\ parser' = [parser EXCEPT !.symbol =
                     remove_symbol_smt2(@, AllNodes(@)[k])]
    /\ last' = [last EXCEPT !.cmd = "remove",
                            !.arg = AllNodes(parser.symbol)[k].id]
    /\ UNCHANGED <<bzla, outfile, res, pc, result, perr, opened>>

NextTable ==
    \/ TableInsert
    \/ TableRemove

SpecTable ==
    /\ InitWith([table |-> <<>>, count |-> 0], FALSE, FALSE, FALSE, "BV")
    /\ [][NextTable]_vars

-----------------------------------------------------------------------------
(* Properties                                                              *)

\* C1: with :global-declarations false, when a (pop N) that matches a
\* (push N) has been executed and no command has failed, every name is
\* defined or undefined, and bound to the same node, as it was when the
\* push was executed.
C1_PopRestoresTable ==
    [][(/\ last'.cmd = "pop"
        /\ last'.ret = 1
        /\ parser'.error = NULL
        /\ parser'.scope_level < parser.scope_level
        /\ opened[parser.scope_level].base = parser'.scope_level
        /\ opened[parser.scope_level].n =
              parser.scope_level - parser'.scope_level
        /\ ~opened[parser.scope_level].gd)
       => View(parser'.symbol) = opened[parser.scope_level].view]_vars

\* C2: once an error has been recorded no later command is executed: the
\* symbol table, the scope level, the backend and the output stay as they
\* are.
C2_ErrorStopsParse ==
    [][parser.error # NULL =>
          /\ parser'.symbol = parser.symbol
          /\ parser'.scope_level = parser.scope_level
          /\ bzla' = bzla
          /\ outfile' = outfile]_vars

\* C3: the error slot holds the first message reported, a later report
\* does not change it, and the parse call returns it.
C3_ErrorWriteOnce ==
    /\ [](parser.error = perr.first)
    /\ [](pc = "done" => result = perr.first)
    /\ [][parser.error # NULL => parser'.error = parser.error]_vars

\* a second error was reported, and the parse call returned the first
C3_Witness ==
    /\ pc = "done"
    /\ perr.first # NULL
    /\ perr.last # perr.first
    /\ result = perr.first

\* C4: outside a model block, where read_command_smt2 dispatches them,
\* declare-const, declare-fun and define-fun of a name that is defined fail
\* with "symbol already defined", and the entry of the name stays as it is.
C4_AlreadyDefined ==
    [][\A name \in {x, y} :
          (/\ parser.commands.model = 0
           /\ \/ /\ last'.cmd \in {"declare-const", "declare-fun"}
                 /\ name = Names[last'.arg]
              \/ /\ last'.cmd = "define-fun"
                 /\ name = Defines[last'.arg][2]
           /\ find_symbol_smt2(parser.symbol, name).coo # 0)
          => /\ last'.ret = 0
             /\ parser'.error # NULL
             /\ perr'.last = "symbol already defined"
             /\ find_symbol_smt2(parser'.symbol, name)
                   = find_symbol_smt2(parser.symbol, name)]_vars

\* the name y, defined by a :named annotation only, was declared again
C4_Witness ==
    /\ last.cmd = "declare-const"
    /\ Names[last.arg] = y
    /\ last.ret = 0
    /\ perr.first = "symbol already defined"
    /\ find_symbol_smt2(parser.symbol, y).coo # 0
    /\ find_symbol_smt2(parser.symbol, y).exp = NoExp

\* C5: when x is defined, the x in the body of (let ((x #b0)) x), of
\* (forall ((x (_ BitVec 1))) x) and of (define-fun y ((x (_ BitVec 1)))
\* (_ BitVec 1) x) is the one bound by the binder, and after the command the
\* name x resolves to the entry it resolved to before, unchanged.
C5_Shadowing ==
    [][(/\ find_symbol_smt2(parser.symbol, x).coo # 0
        /\ last'.ret = 1
        /\ \/ last'.cmd = "assert" /\ last'.arg \in {5, 6}
           \/ last'.cmd = "define-fun" /\ last'.arg = 2)
       => /\ find_symbol_smt2(parser'.symbol, x)
                = find_symbol_smt2(parser.symbol, x)
          /\ last'.cmd = "assert" /\ last'.arg = 5
                => last'.exp = boolector_const(<<ZERO_CHAR>>)
          /\ last'.cmd = "assert" /\ last'.arg = 6
                => /\ last'.exp.kind = "forall"
                   /\ last'.exp.args[1].kind = "param"
                   /\ last'.exp.args[2] = last'.exp.args[1]
          /\ last'.cmd = "define-fun" /\ parser.commands.model = 0
                => /\ find_symbol_smt2(parser'.symbol, y).exp.kind = "fun"
                   /\ find_symbol_smt2(parser'.symbol, y).exp.args[1].kind
                         = "param"
                   /\ find_symbol_smt2(parser'.symbol, y).exp.args[2]
                         = find_symbol_smt2(parser'.symbol, y).exp.args[1]
       ]_vars

\* x is declared, and (let ((x #b0)) x) was asserted
C5_Witness ==
    /\ last.cmd = "assert"
    /\ last.arg = 5
    /\ last.ret = 1
    /\ last.exp.kind = "const"
    /\ find_symbol_smt2(parser.symbol, x).exp.kind \in {"var", "array"}

\* C6: a (pop N) with N above the scope level fails with an error and
\* leaves the scope level, the symbol table and the stack of the backend
\* as they are.  The third token of LevelTokens is above every level.
C6_PopTooManyRejected ==
    [][(/\ last'.cmd = "pop"
        /\ \/ last'.arg = 3
           \/ ValidLevel(last'.arg) /\ NumberOf(last'.arg) > parser.scope_level)
       => /\ last'.ret = 0
          /\ parser'.error # NULL
          /\ parser'.scope_level = parser.scope_level
          /\ parser'.symbol = parser.symbol
          /\ bzla'.level = bzla.level]_vars

\* C7: the scope level of the parser is the level of the backend; a
\* (push N) and a (pop N) that succeed, N a numeral the parser accepts,
\* raise and lower both by N.
C7_LockStep ==
    /\ [](parser.scope_level = bzla.level)
    /\ [][(/\ last'.cmd \in {"push", "pop"}
            /\ ValidLevel(last'.arg)
            /\ last'.ret = 1) =>
            /\ last'.cmd = "push" =>
                 /\ parser'.scope_level
                       = parser.scope_level + NumberOf(last'.arg)
                 /\ bzla'.level = bzla.level + NumberOf(last'.arg)
            /\ last'.cmd = "pop" =>
                 /\ parser'.scope_level
                       = parser.scope_level - NumberOf(last'.arg)
                 /\ bzla'.level = bzla.level - NumberOf(last'.arg)]_vars

\* (pop 1) was executed at level 2
C7_Witness ==
    /\ last.cmd = "pop"
    /\ NumberOf(last.arg) = 1
    /\ last.ret = 1
    /\ parser.scope_level = 1
    /\ bzla.level = 1

\* C8: while :global-declarations is true a (pop N) that succeeds leaves
\* the symbol table as it is and lowers the scope level and the level of
\* the backend by N.
C8_GlobalDeclarations ==
    [][(/\ last'.cmd = "pop"
        /\ ValidLevel(last'.arg)
        /\ last'.ret = 1
        /\ parser.global_declarations)
       => /\ parser'.symbol = parser.symbol
          /\ parser'.scope_level = parser.scope_level - NumberOf(last'.arg)
          /\ bzla'.level = bzla.level - NumberOf(last'.arg)]_vars

\* after a pop a symbol declared at a level above the current one is defined
C8_Witness ==
    /\ last.cmd = "pop"
    /\ last.ret = 1
    /\ parser.global_declarations
    /\ \E n \in 1..Len(Names) :
          /\ find_symbol_smt2(parser.symbol, Names[n]).scope_level
                > parser.scope_level
          /\ find_symbol_smt2(parser.symbol, Names[n]).exp # NoExp

\* C9: an assert that succeeds has forwarded its term, which is not an
\* array and has width 1; an assert that fails has recorded an error and
\* forwarded nothing; a term parsed is forwarded exactly if it is not an
\* array and has width 1; the counter of asserts is the number of terms
\* forwarded by assert.
C9_AssertOneBit ==
    /\ [](parser.commands.asserts =
             Cardinality({i \in 1..Len(bzla.asserted) :
                             bzla.asserted[i].by = "assert"}))
    /\ [][last'.cmd = "assert" =>
            /\ last'.ret = 1 =>
                 /\ ~last'.exp.array
                 /\ last'.exp.width = 1
                 /\ bzla'.asserted = Append(bzla.asserted,
                                       [exp |-> last'.exp, by |-> "assert"])
                 /\ parser'.commands.asserts = parser.commands.asserts + 1
            /\ last'.ret = 0 =>
                 /\ parser'.error # NULL
                 /\ bzla'.asserted = bzla.asserted
                 /\ parser'.commands.asserts = parser.commands.asserts
            /\ last'.exp # NoExp =>
                 (last'.ret = 1 <=> ~last'.exp.array /\ last'.exp.width = 1)
       ]_vars

\* a term of width 2 was parsed by assert and rejected
C9_Witness ==
    /\ last.cmd = "assert"
    /\ last.ret = 0
    /\ last.exp.width = 2
    /\ perr.first = "assert argument is a bit-vector of length"
    /\ bzla.asserted = <<>>

\* C10: check-sat-assuming fails without the option incremental, and it
\* fails with an error, check-sat not being run, when a term of its list is
\* an array or has a width other than 1.
C10_AssumingOneBit ==
    [][last'.cmd = "check-sat-assuming" =>
         /\ ~bzla.opts.incremental =>
               /\ last'.ret = 0
               /\ parser'.error # NULL
               /\ parser'.commands.check_sat = parser.commands.check_sat
         /\ (\E i \in 1..Len(last'.exps) :
                last'.exps[i].array \/ last'.exps[i].width # 1) =>
               /\ last'.ret = 0
               /\ parser'.error # NULL
               /\ parser'.commands.check_sat = parser.commands.check_sat
               /\ res' = res]_vars

\* C11: outside a model block and with model generation enabled, a
\* get-value issued while the result of the last check-sat is not sat
\* succeeds, prints nothing, records no error and leaves none of its text
\* unread, and an exit that follows it is executed.
C11_GetValueNoOp ==
    /\ [][(/\ last'.cmd = "get-value"
            /\ parser.infile = <<>>
            /\ parser.commands.model = 0
            /\ bzla.opts.model_gen
            /\ res.result # "sat")
           => /\ last'.ret = 1
              /\ outfile' = outfile
              /\ perr' = perr
              /\ parser'.infile = <<>>]_vars
    /\ [][(/\ last.cmd = "get-value"
            /\ last.ret = 1
            /\ res.result # "sat"
            /\ last'.cmd = "exit")
           => /\ last'.ret = 1
              /\ parser'.commands.exits = 1
              /\ perr' = perr]_vars

\* C12: when no array has been declared, (model enters the model block;
\* while commands.model is set every command other than define-fun, a
\* nested (model included, fails with "expected 'define-fun' after 'model'"
\* and changes neither the symbol table nor the backend; the ")" that
\* closes the block clears commands.model and the main loop goes on, where
\* an exit is executed.
C12_ModelBlock ==
    /\ [][(/\ last'.cmd = "model"
            /\ parser.commands.model = 0
            /\ parser.infile = <<>>
            /\ ~parser.need_arrays)
           => /\ pc' = "model"
              /\ last'.ret = 1
              /\ parser'.commands.model = 1
              /\ perr' = perr]_vars
    /\ [][(/\ parser.commands.model # 0
            /\ bzla'.terminate = bzla.terminate
            /\ last'.cmd \notin {"define-fun", ")", "eof"})
           => /\ last'.ret = 0
              /\ perr'.last = "expected 'define-fun' after 'model'"
              /\ parser'.error # NULL
              /\ parser'.commands.model = 1
              /\ parser'.symbol = parser.symbol
              /\ bzla' = bzla
              /\ outfile' = outfile]_vars
    /\ [][(/\ pc = "model"
            /\ bzla'.terminate = bzla.terminate
            /\ last'.cmd = ")")
           => /\ parser'.commands.model = 0
              /\ perr' = perr
              /\ pc' = IF bzla.terminate THEN "done" ELSE "parse"]_vars
    /\ [][(/\ pc = "parse"
            /\ last.cmd = ")"
            /\ bzla'.terminate = bzla.terminate
            /\ last'.cmd = "exit")
           => /\ last'.ret = 1
              /\ parser'.commands.exits = 1
              /\ pc' = "done"
              /\ result' = NULL]_vars

\* a model block with a define-fun was read and closed without an error
C12_Witness ==
    /\ pc = "parse"
    /\ last.cmd = ")"
    /\ parser.commands.model = 0
    /\ parser.error = NULL
    /\ Len(bzla.asserted) = 1
    /\ bzla.asserted[1].by = "model"

\* C13: in a script without set-option, print_success is true, and every
\* set-logic, declare-const, assert and exit that succeeds prints the line
\* "success".
C13_PrintSuccessDefault ==
    /\ [](parser.print_success)
    /\ [][(/\ last'.cmd \in {"set-logic", "declare-const", "assert", "exit"}
            /\ last'.ret = 1
            /\ parser'.commands.all = parser.commands.all + 1)
           => outfile' = Append(outfile, "success")]_vars

\* C14: when the termination flag is set, the command read next is the
\* last: after it parse_smt2_parser has returned, unless the command is
\* (model, whose block then ends after its first command; the value
\* returned is the error slot, which is empty when no command has recorded
\* an error; and nothing is read after the return.
C14_Terminate ==
    /\ [][bzla.terminate =>
            /\ \/ pc' \in {"done", "abort"}
               \/ pc = "parse" /\ pc' = "model" /\ last'.cmd = "model"
            /\ pc' = "done" =>
                  /\ result' = parser'.error
                  /\ perr'.first = NULL => result' = NULL
                  /\ perr' = perr => parser'.error = parser.error]_vars
    /\ [][pc = "parse" \/ pc = "model"]_vars

\* the flag was set, the declare-const in progress succeeded, and the parse
\* returned without an error although no exit was read
C14_Witness ==
    /\ bzla.terminate
    /\ pc = "done"
    /\ last.cmd = "declare-const"
    /\ last.ret = 1
    /\ ~parser.done
    /\ result = NULL

\* C15: when the parse has returned without an error and no set-logic was
\* read, the logic of the result is BV if a quantifier was read, otherwise
\* QF_AUFBV if functions and arrays were declared, otherwise QF_UFBV if
\* functions were declared, otherwise QF_BV.
C15_LogicInferred ==
    (pc = "done" /\ result = NULL /\ parser.commands.set_logic = 0)
    => res.logic = IF parser.need_quantifiers THEN "BV"
                   ELSE IF parser.need_functions /\ parser.need_arrays
                   THEN "QF_AUFBV"
                   ELSE IF parser.need_functions THEN "QF_UFBV"
                   ELSE "QF_BV"

\* C16: for the names x, y and z and for names entered at construction,
\* the quoted and the unquoted form have the same hash value for the size
\* of the table, and find_symbol_smt2 returns the same entry for both.
C16_QuoteEquivalence ==
    \A name \in {x, y, <<122>>, kw.let, kw.not, kw.named} :
       /\ hash_name_smt2(Size(parser.symbol), Quote(name))
             = hash_name_smt2(Size(parser.symbol), name)
       /\ find_symbol_smt2(parser.symbol, Quote(name))
             = find_symbol_smt2(parser.symbol, name)

\* the table has been enlarged, x was entered as |x| and y as y, and an
\* entry has been removed by pop
C16_Witness ==
    /\ Size(parser.symbol) > 8
    /\ find_symbol_smt2(parser.symbol, x).name = Quote(x)
    /\ find_symbol_smt2(parser.symbol, Quote(y)).name = y
    /\ last.cmd = "pop"
    /\ last.ret = 1
    /\ parser.symbol.count < 9

C18_LeftAssociative ==
    [][(last'.cmd = "assert" /\ last'.arg.tag \in TagClass.bitvec) =>
         LET a == last'.arg.args
             n == Len(a)
             e == [i \in 1..n |->
                     IF a[i].k = "bin"
                     THEN boolector_const(a[i].name)
                     ELSE find_symbol_smt2(parser.symbol, a[i].name).exp]
         IN  /\ n < 2 => /\ last'.ret = 0
                         /\ last'.exp = NoExp
                         /\ (\A i \in 1..n : e[i] # NoExp)
                            => perr'.last = "argument missing"
             /\ (/\ n >= 2
                 /\ \A i \in 1..n : e[i] # NoExp /\ ~e[i].array /\ ~e[i].fun
                 /\ \/ last'.arg.tag = "BV_CONCAT"
                    \/ \A i \in 1..n : e[i].width = e[1].width)
                => last'.exp = For(2, n, e[1], LAMBDA acc, i :
                                      Binary(BvFun[last'.arg.tag], acc, e[i]))
             /\ (n >= 2 /\ last'.exp # NoExp)
                => last'.exp = For(2, n, e[1], LAMBDA acc, i :
                                      Binary(BvFun[last'.arg.tag], acc, e[i]))
    ]_vars

\* C19: (= x1 ... xn) is the conjunction of the n - 1 equalities of
\* consecutive arguments and (distinct x1 ... xn) the conjunction of the
\* n(n - 1)/2 disequalities of the pairs of arguments; with fewer than two
\* arguments, or with arguments whose sorts differ, the reduction is an
\* error and no node is built.
C19_EqualDistinct ==
    [][(last'.cmd = "assert" /\ last'.arg.tag \in {"EQUAL", "DISTINCT"}) =>
         LET a == last'.arg.args
             n == Len(a)
             e == [i \in 1..n |->
                     IF a[i].k = "bin"
                     THEN boolector_const(a[i].name)
                     ELSE find_symbol_smt2(parser.symbol, a[i].name).exp]
             fun == IF last'.arg.tag = "EQUAL" THEN "eq" ELSE "ne"
             RECURSIVE conjuncts(_)
             conjuncts(c) == IF c.kind = "and"
                             THEN conjuncts(c.args[1]) \o conjuncts(c.args[2])
                             ELSE <<c>>
             pairs == IF last'.arg.tag = "EQUAL"
                      THEN {<<i, i + 1>> : i \in 1..(n - 1)}
                      ELSE {<<i, j>> \in (1..n) \X (1..n) : i < j}
         IN  (\A i \in 1..n : e[i] # NoExp) =>
             IF n < 2
             THEN /\ last'.ret = 0
                  /\ last'.exp = NoExp
                  /\ perr'.last = IF n = 0 THEN "arguments missing"
                                            ELSE "only one argument"
             ELSE IF \E i \in 2..n : ~boolector_is_equal_sort(e[1], e[i])
             THEN /\ last'.ret = 0
                  /\ last'.exp = NoExp
                  /\ perr'.last # NULL
                  /\ bzla'.asserted = bzla.asserted
             ELSE /\ last'.exp.width = 1
                  /\ Len(conjuncts(last'.exp)) = Cardinality(pairs)
                  /\ {conjuncts(last'.exp)[k] :
                         k \in 1..Len(conjuncts(last'.exp))}
                        = {Binary(fun, e[p[1]], e[p[2]]) : p \in pairs}
                  /\ (n = 3 /\ fun = "ne")
                     => Len(conjuncts(last'.exp)) = 3
    ]_vars

C19_Witness ==
    /\ last.cmd = "assert"
    /\ last.ret = 1
    /\ last.arg.tag = "DISTINCT"
    /\ Len(last.arg.args) = 3
    /\ last.arg.args[1] # last.arg.args[2]
    /\ last.exp.kind = "and"
    /\ Len(bzla.asserted) = 1

\* C20: (select a i) is reduced to a read only when a is an array and i a
\* bit-vector, not an array, whose width is the index width of a, and
\* (store a i v) to a write only when in addition v is a bit-vector, not an
\* array, whose width is the element width of a; in every other case the
\* reduction fails with an error and no node of the backend is built.
C20_SelectStore ==
    [][(last'.cmd = "assert" /\ last'.arg.tag \in TagClass.array) =>
         LET a == last'.arg.args
             n == Len(a)
             e == [i \in 1..n |->
                     IF a[i].k = "bin"
                     THEN boolector_const(a[i].name)
                     ELSE find_symbol_smt2(parser.symbol, a[i].name).exp]
             select == last'.arg.tag = "ARRAY_SELECT"
             bv(i) == e[i] # NoExp /\ ~e[i].array /\ ~e[i].fun
         IN  IF /\ n = IF select THEN 2 ELSE 3
                /\ e[1].array
                /\ bv(2)
                /\ e[2].width = ArraySort.width
                /\ select \/ (bv(3) /\ e[3].width = e[1].width)
             THEN last'.exp = IF select
                              THEN MkExp("read", e[1].width, FALSE, FALSE,
                                         <<>>, e)
                              ELSE MkExp("write", e[1].width, TRUE, FALSE,
                                         <<>>, e)
             ELSE /\ last'.ret = 0
                  /\ last'.exp = NoExp
                  /\ parser'.error # NULL
                  /\ perr'.last # NULL
                  /\ ~bzla'.aborted
    ]_vars

\* C27 (as stated): the entry that the lexer creates for a symbol that the
\* table does not hold has scope_level 0, whatever the scope level is.
C27_FreshAtLevelZero ==
    [][(/\ last'.cmd \in {"set-info", "declare-const"}
        /\ find_symbol_smt2(parser.symbol, Names[last'.arg]) = NoNode
        /\ find_symbol_smt2(parser'.symbol, Names[last'.arg]) # NoNode)
       => find_symbol_smt2(parser'.symbol, Names[last'.arg]).scope_level = 0
    ]_vars

\* C27 (amended): the entry that the lexer creates for a symbol that the
\* table does not hold has the scope level that the parser has when the
\* symbol is read.
C27_FreshAtCurrentLevel ==
    [][(/\ last'.cmd \in {"set-info", "declare-const"}
        /\ find_symbol_smt2(parser.symbol, Names[last'.arg]) = NoNode
        /\ find_symbol_smt2(parser'.symbol, Names[last'.arg]) # NoNode)
       => /\ find_symbol_smt2(parser'.symbol, Names[last'.arg]).scope_level
                = parser.scope_level
          /\ find_symbol_smt2(parser'.symbol, Names[last'.arg]).tag = "SYMBOL"
    ]_vars

C27_Witness ==
    /\ last.cmd = "set-info"
    /\ last.ret = 1
    /\ parser.scope_level = 2
    /\ find_symbol_smt2(parser.symbol, Names[last.arg]).scope_level = 2
    /\ find_symbol_smt2(parser.symbol, Names[last.arg]).exp = NoExp

\* C26: in every reachable state any two entries of the symbol table with
\* the same name have different scope levels.
C26_OnePerNameAndLevel ==
    \A i, j \in 1..Len(AllNodes(parser.symbol)) :
       (/\ i # j
        /\ AllNodes(parser.symbol)[i].name = AllNodes(parser.symbol)[j].name)
       => AllNodes(parser.symbol)[i].scope_level
             # AllNodes(parser.symbol)[j].scope_level

\* C30: a binder opens one scope level and its closing parenthesis closes
\* it: when (let ((x #b0)) y) stops at the undefined y in its body the
\* scope level is one higher than before the term and the entry bound to x
\* carries the higher level; after a binder term that was parsed to its
\* end the scope level is the one before the term.
C30_BinderOpensScope ==
    [][/\ (/\ last'.cmd = "assert"
           /\ last'.arg = 9
           /\ perr.first = ""
           /\ perr'.last = "undefined symbol")
          => /\ parser'.scope_level = parser.scope_level + 1
             /\ find_symbol_smt2(parser'.symbol, x).scope_level
                   = parser.scope_level + 1
       /\ (/\ last'.cmd = "assert"
           /\ last'.arg \in {5, 6, 9}
           /\ last'.ret = 1)
          => parser'.scope_level = parser.scope_level]_vars

\* the identities of the entries that find compares equal to name, in the
\* order of their chain
Order(symbol, name) ==
    With(SelectSeq(AllNodes(symbol),
                   LAMBDA e : NameMatches(e.name, name)),
         LAMBDA es : [k \in 1..Len(es) |-> es[k].id])

\* C25: find returns the most recently inserted entry of a name that has
\* not been removed.  Step by step: an insertion puts the new entry in
\* front of the entries of its name and keeps the others in their order,
\* also when it enlarges the table; a removal takes out the given entry
\* and nothing else; and find returns the first entry of the order, or
\* nothing when there is none.
C25_FindMostRecent ==
    [][\A n \in 1..Len(Names \o Quoted) :
        With(<<Order(parser.symbol, (Names \o Quoted)[n]),
               Order(parser'.symbol, (Names \o Quoted)[n]),
               find_symbol_smt2(parser'.symbol, (Names \o Quoted)[n])>>,
             LAMBDA o :
             /\ o[3].id = IF o[2] = <<>> THEN 0 ELSE o[2][1]
             /\ last'.cmd = "insert" =>
                  /\ NameMatches((Names \o Quoted)[n],
                        NodeById(parser'.symbol, last'.arg).name)
                     => o[2] = <<last'.arg>> \o o[1]
                  /\ ~NameMatches((Names \o Quoted)[n],
                        NodeById(parser'.symbol, last'.arg).name)
                     => o[2] = o[1]
             /\ last'.cmd = "remove" =>
                  /\ o[2] = SelectSeq(o[1], LAMBDA i : i # last'.arg)
                  /\ Len(AllNodes(parser'.symbol))
                        = Len(AllNodes(parser.symbol)) - 1)]_vars

\* the table was enlarged from 2 to 4 buckets while it held two entries
\* that compare equal to x, and a third was inserted after that
C25_Witness ==
    /\ Size(parser.symbol) = 4
    /\ Len(Order(parser.symbol, x)) = 3
    /\ last.cmd = "insert"
    /\ find_symbol_smt2(parser.symbol, x).id = last.arg

\* C29: a push or pop whose argument is not a valid decimal numeral (a
\* numeral above 2^32 - 1, or a symbol) records an error, fails, and leaves
\* the scope level, the defined names of the symbol table and the assertion
\* stack of the backend as they were.
C29_InvalidLevelRejected ==
    [][(/\ last'.cmd \in {"push", "pop"}
        /\ last'.arg \in {3, 4}
        /\ perr.first = "")
       => /\ perr'.first # ""
          /\ last'.ret = 0
          /\ parser'.scope_level = parser.scope_level
          /\ View(parser'.symbol) = View(parser.symbol)
          /\ bzla'.level = bzla.level]_vars

\* C28: the entries with which the table is created are never removed and
\* never bound: in every state each of them is in the table as it was
\* created, and an expression is bound only to entries of tag SYMBOL.
C28_ReservedUntouched ==
    /\ \A i \in 1..Len(AllNodes(InitSymbol)) :
          NodeById(parser.symbol, AllNodes(InitSymbol)[i].id)
             = AllNodes(InitSymbol)[i]
    /\ \A i \in 1..Len(AllNodes(parser.symbol)) :
          AllNodes(parser.symbol)[i].exp # NoExp
             => AllNodes(parser.symbol)[i].tag = "SYMBOL"

\* the node of the argument a of an operator in the symbol table symbol
ArgExp(symbol, a) ==
    IF a.k = "bin" THEN boolector_const(a.name)
    ELSE find_symbol_smt2(symbol, a.name).exp

\* C21: ((_ zero_extend k) t) and ((_ sign_extend k) t), for t a
\* bit-vector of width w and every index k from 0 to 2^32 - 1, are rejected
\* with 'resulting bit-width too large' when w + k is above 2^31 - 1, and
\* are otherwise the extension of t by k, of width w + k.
C21_ExtendWidthGuard ==
    [][(/\ last'.cmd = "assert"
        /\ last'.arg.tag \in {"BV_ZERO_EXTEND", "BV_SIGN_EXTEND"}) =>
         With(<<ArgExp(parser.symbol, last'.arg.args[1]),
                str2uint32_smt2(TRUE, last'.arg.index)>>, LAMBDA c :
            (/\ c[1] # NoExp
             /\ ~c[1].array
             /\ ~c[1].fun
             /\ c[2] # <<-1, -1>>)
            => IF Less(Wide(2147483647 - c[1].width), c[2])
               THEN /\ last'.exp = NoExp
                    /\ last'.ret = 0
                    /\ perr'.last = "resulting bit-width too large"
               ELSE last'.exp =
                       MkExp(IF last'.arg.tag = "BV_ZERO_EXTEND"
                             THEN "uext" ELSE "sext",
                             c[1].width + Narrow(c[2]), FALSE, FALSE, c[2],
                             <<c[1]>>))]_vars

\* C22: (ext_rotate_left t c) and (ext_rotate_right t c), for t a
\* bit-vector of width w, are an error without a node when c is not a
\* bit-vector constant, and for a constant c of any value are the rotation
\* of t by the value of c modulo w.
C22_ExtRotateModulo ==
    [][(/\ last'.cmd = "assert"
        /\ last'.arg.tag \in {"BV_EXT_ROTATE_LEFT", "BV_EXT_ROTATE_RIGHT"}) =>
         With(<<ArgExp(parser.symbol, last'.arg.args[1]),
                ArgExp(parser.symbol, last'.arg.args[2])>>, LAMBDA c :
            (\A k \in 1..2 : c[k] # NoExp /\ ~c[k].array /\ ~c[k].fun)
            => IF c[2].kind # "const"
               THEN /\ last'.exp = NoExp
                    /\ last'.ret = 0
                    /\ perr'.last
                          = "second argument is not a bit vector constant"
               ELSE last'.exp =
                       MkExp(IF last'.arg.tag = "BV_EXT_ROTATE_LEFT"
                             THEN "roli" ELSE "rori",
                             c[1].width, FALSE, FALSE,
                             Wide(For(1, Len(c[2].name), 0,
                                      LAMBDA acc, k :
                                         acc * 2 + c[2].name[k] - ZERO_CHAR)
                                  % c[1].width),
                             <<c[1]>>))]_vars

\* C23: for n >= 1, (_ bvK n) is the constant of width n whose binary
\* digits have the value K when K < 2^n, also when K is written with a
\* leading zero; when K >= 2^n it is an error and no constant is built.
C23_BvConstRoundTrip ==
    [][(/\ last'.cmd = "assert"
        /\ last'.arg.tag = "BVCONST"
        /\ last'.arg.index[2] >= 1) =>
         IF last'.arg.index[1] < 2 ^ last'.arg.index[2]
         THEN /\ last'.exp.kind = "const"
              /\ last'.exp.width = last'.arg.index[2]
              /\ Len(last'.exp.name) = last'.arg.index[2]
              /\ For(1, Len(last'.exp.name), 0,
                     LAMBDA acc, k : acc * 2 + last'.exp.name[k] - ZERO_CHAR)
                    = last'.arg.index[1]
         ELSE /\ last'.exp = NoExp
              /\ last'.ret = 0
              /\ perr'.last
                    = "decimal constant needs bits which exceeds bit-width"
      ]_vars

\* (_ bv1 2) or (_ bv01 2) was parsed to the constant #b01
C23_Witness ==
    /\ last.cmd = "assert"
    /\ last.arg.tag = "BVCONST"
    /\ last.arg.index = <<1, 2>>
    /\ last.exp = boolector_const(<<ZERO_CHAR, ZERO_CHAR + 1>>)

\* C24: for an input that starts with 0 directly followed by another
\* digit (01, 007) the lexer reports an error and returns no token.
C24_LeadingZeroRejected ==
    [][(/\ last'.cmd = "read_token"
        /\ Len(last'.arg) >= 2
        /\ last'.arg[1] = ZERO_CHAR
        /\ IsDigit(last'.arg[2]))
       => /\ last'.ret = 0
          /\ last'.exp.kind = "INVALID"
          /\ perr'.last # NULL]_vars

\* C31: for every name, find returns, among the entries of the table with
\* that name, one whose scope level does not exceed the current scope level
\* and is the greatest such level; it returns no entry when the table has
\* no entry with that name at or below the current level.
C31_FindInnermost ==
    \A i \in 1..Len(Names) :
        With(find_symbol_smt2(parser.symbol, Names[i]), LAMBDA n :
        With(AllNodes(parser.symbol), LAMBDA ns :
             With({k \in 1..Len(ns) :
                        /\ ns[k].name = Names[i]
                        /\ ns[k].scope_level <= parser.scope_level},
                  LAMBDA S :
                  IF S = {} THEN n = NoNode
                  ELSE /\ n.id \in {ns[k].id : k \in S}
                       /\ \A k \in S : ns[k].scope_level <= n.scope_level)))

\* C32: a name inside a bound term of a let resolves to the binding that
\* was visible before the let.  With x declared as a bit-vector of width 1,
\* (let ((x x)) x), (let ((x #b0) (y x)) y) and (let ((y x)) y) parse
\* successfully to the declared x; with x undefined they are errors.
C32_LetBoundTermsSeeOuter ==
    [][(/\ last'.cmd = "assert"
        /\ last'.arg \in [let : 1..3]
        /\ perr.first = NULL)
       => With(find_symbol_smt2(parser.symbol, x).exp, LAMBDA outer :
               /\ (outer = NoExp) => (last'.ret = 0)
               /\ (outer # NoExp /\ ~outer.array)
                     => /\ last'.ret = 1
                        /\ last'.exp = outer)]_vars

\* C33: define-sort and declare-sort of a name that an earlier define-sort
\* or declare-sort introduced as a sort fail with the error 'sort already
\* defined' (declare-sort: unless it is not supported at all), and the
\* sort that the name stands for is not replaced.
C33_SortAlreadyDefined ==
    [][(/\ last'.cmd \in {"define-sort", "declare-sort"}
        /\ find_symbol_smt2(parser.symbol, last'.arg.name).sort # 0)
       => /\ last'.ret = 0
          /\ \/ perr'.last = "sort already defined"
             \/ /\ last'.cmd = "declare-sort"
                /\ bzla.opts.declsort_bv_width = 0
          /\ find_symbol_smt2(parser'.symbol, last'.arg.name).sort_alias
                = find_symbol_smt2(parser.symbol, last'.arg.name).sort_alias
      ]_vars

\* C34: inside a model block a define-fun of s creates and changes no
\* binding: the node bound to every name is the one bound before.  When s
\* is undefined the command is the error 'symbol undefined'; a command
\* that fails has recorded a parse error and asserts nothing; when the
\* command succeeds, s was defined and the assertions of the backend are
\* those before followed by one equation whose left side is the node bound
\* to s and whose right side is the term, or the function with the term as
\* body.
C34_ModelDefineFunFrame ==
    [][(/\ last'.cmd = "define-fun"
        /\ parser.commands.model # 0
        /\ parser.infile = <<>>)
       => With(find_symbol_smt2(parser.symbol, Defines[last'.arg][2]),
               LAMBDA f :
               /\ (f.coo = 0) => /\ last'.ret = 0
                                 /\ perr'.last = "symbol undefined"
               /\ (last'.ret = 0) => /\ bzla'.asserted = bzla.asserted
                                     /\ perr'.last # NULL
               /\ View(parser'.symbol) = View(parser.symbol)
               /\ (last'.ret = 1)
                     => /\ f.coo # 0
                        /\ Len(bzla'.asserted) = Len(bzla.asserted) + 1
                        /\ Prefix(bzla'.asserted, Len(bzla.asserted))
                              = bzla.asserted
                        /\ With(bzla'.asserted[Len(bzla'.asserted)].exp,
                                LAMBDA eq :
                                /\ eq.kind = "eq"
                                /\ eq.args[1] = f.exp
                                /\ IF Defines[last'.arg][3] = <<>>
                                   THEN eq.args[2]
                                           = boolector_const(<<ZERO_CHAR>>)
                                   ELSE /\ eq.args[2].kind = "fun"
                                        /\ eq.args[2].args[2].kind = "param"))
      ]_vars

\* C35: with the option parse-interactive off, a check-sat or
\* check-sat-assuming read by the main loop does not call boolector_sat
\* (the result and the number of sat calls stay as they are), prints
\* nothing, and is the last command: parse_smt2_parser returns after it,
\* and no step is taken once the parser is done.
C35_NonInteractiveCheckSat ==
    /\ [][(/\ last'.cmd \in {"check-sat", "check-sat-assuming"}
            /\ pc = "parse"
            /\ parser.infile = <<>>
            /\ ~bzla.opts.parse_interactive)
           => /\ res'.result = res.result
              /\ res'.nsatcalls = res.nsatcalls
              /\ outfile' = outfile
              /\ pc' = "done"
              /\ last'.ret = 1 => /\ parser'.done
                                  /\ parser'.commands.check_sat = 1]_vars
    /\ [][~parser.done /\ pc # "done"]_vars

\* after a declaration a check-sat was read with parse-interactive off: the
\* parse has returned without an error, nothing was printed and
\* boolector_sat was not called
C35_Witness ==
    /\ ~bzla.opts.parse_interactive
    /\ last.cmd = "check-sat"
    /\ last.ret = 1
    /\ pc = "done"
    /\ parser.done
    /\ parser.commands.all = 2
    /\ result = NULL
    /\ res.nsatcalls = 0
    /\ outfile = <<>>

\* the node of the argument a of fp.add, fp.sub, fp.mul or fp.div in the
\* symbol table symbol: RNE is a bit-vector of width 1
FpArgExp(symbol, a) ==
    IF a.k = "bin" THEN boolector_const(a.name)
    ELSE IF a.name = kw.RNE THEN MkExp("var", 1, FALSE, FALSE, <<>>, <<>>)
    ELSE find_symbol_smt2(symbol, a.name).exp

\* C36: the reduction of fp.add, fp.sub, fp.mul and fp.div fails unless
\* there are exactly 3 arguments, and fails with a sort-mismatch error
\* when the arguments 2 and 3, the operands after the rounding mode, are
\* of different sorts.
C36_FpArityAndOperandSorts ==
    [][(/\ last'.cmd = "assert"
        /\ last'.arg.fp \in {"FP_ADD", "FP_SUB", "FP_MUL", "FP_DIV"}) =>
         With(last'.arg.args, LAMBDA a :
            /\ (Len(a) # 3) => (last'.ret = 0)
            /\ (/\ Len(a) = 3
                /\ FpArgExp(parser.symbol, a[2]) # NoExp
                /\ FpArgExp(parser.symbol, a[3]) # NoExp
                /\ ~boolector_is_equal_sort(FpArgExp(parser.symbol, a[2]),
                                            FpArgExp(parser.symbol, a[3])))
               => /\ last'.ret = 0
                  /\ perr'.last \in
                        {"first argument is an array but argument is not",
                         "argument is an array of bit-vectors of another width",
                         "argument is an array with index bit-vectors of another width",
                         "first argument is a function but argument not",
                         "sort of argument does not match with sort of first argument",
                         "argument is an array but first argument not",
                         "argument is a function but first argument not",
                         "argument is a bit-vector of another width"})]_vars

\* the 1-based line and column of the k-th character of text, with lines
\* that end at '\n'; k = Len(text) + 1 is the place after the last
\* character
PositionOf(text, k) ==
    With({i \in 1..(k - 1) : text[i] = NEWLINE}, LAMBDA nl :
         <<1 + Cardinality(nl),
           k - (IF nl = {} THEN 0 ELSE CHOOSE i \in nl : \A j \in nl : j <= i)>>)

\* C37: the position recorded for a token is the 1-based line and column
\* of its first byte, with lines that end at newline characters; after a
\* token the next position is that of the next byte to be delivered; and
\* reading one more character and ungetting it, be it a newline or not,
\* leaves the next position as it was.
C37_TokenPositions ==
    (last.cmd = "read_token") =>
       /\ (last.exp.kind \notin {"EOF", "INVALID"})
          => /\ parser.coo = PositionOf(last.arg.text, last.arg.start)
             /\ parser.nextcoo =
                   PositionOf(last.arg.text,
                              Len(last.arg.text) - Len(parser.infile[1].name)
                              + (IF parser.saved /\ parser.savedch # EOF
                                 THEN 0 ELSE 1))
       /\ With(nextch_smt2([parser |-> parser, bzla |-> bzla,
                            outfile |-> outfile, res |-> res,
                            perr |-> perr]), LAMBDA r :
               savech_smt2(r.w, r.ch).parser.nextcoo = parser.nextcoo)

\* the second x of the file "x\nx\n" has been read: it is at line 2,
\* column 1, and the newline after it has been read and ungot
C37_Witness ==
    /\ last.cmd = "read_token"
    /\ last.arg = [text |-> <<120, NEWLINE, 120, NEWLINE>>, start |-> 3]
    /\ last.exp.kind = "SYMBOL"
    /\ parser.coo = <<2, 1>>
    /\ parser.nextcoo = <<2, 2>>
    /\ parser.saved
    /\ parser.savedch = NEWLINE
=============================================================================
